---- MODULE Spec2Model ----
(***************************************************************************)
(* TDHCPD: the per-interface lease pool (class Network) and the DHCP       *)
(* request engine (BootpHandlerPrivate) that drives it.                    *)
(*                                                                         *)
(* IPv4 addresses are the 32-bit host-order integers the program uses.     *)
(* The model network is 10.0.0.8/29, the layout of the SmallNetwork_29     *)
(* unit test moved to a network number that fits TLC's 32-bit integers.    *)
(* Time is std::time(nullptr) in whole seconds.                            *)
(***************************************************************************)
EXTENDS Integers, Sequences, FiniteSets, TLC

\* ------------------------------------------------------------------ bounds
NumHw == 2          \* hardware addresses 1..NumHw
MaxTime == 3        \* the clock runs from 1 to MaxTime

HwAddrs == 1..NumHw

\* --------------------------------------------------------- address helpers
concatenateIpAddress(a, b, c, d) == ((a * 256 + b) * 256 + c) * 256 + d

RECURSIVE Pow2(_)
Pow2(n) == IF n = 0 THEN 1 ELSE 2 * Pow2(n - 1)

\* x & mask and x & ~mask for mask = ~0 << (32 - size), on 32-bit values
AndMask(x, size) == x - (x % Pow2(32 - size))
AndNotMask(x, size) == x % Pow2(32 - size)
\* x | ~mask
OrNotMask(x, size) == AndMask(x, size) + (Pow2(32 - size) - 1)

\* ----------------------------------------------------------- configuration
NetworkConfiguration ==
    [ networkSpace         |-> concatenateIpAddress(10, 0, 0, 8),
      networkSize          |-> 32 - 3,
      routers              |-> concatenateIpAddress(10, 0, 0, 9),
      dhcpServerIdentifier |-> concatenateIpAddress(10, 0, 0, 9),
      dhcpFirst            |-> concatenateIpAddress(10, 0, 0, 10),
      dhcpLast             |-> concatenateIpAddress(10, 0, 0, 11),
      dnsServers           |-> << concatenateIpAddress(10, 0, 0, 9) >>,
      leaseTime            |-> 1,
      renewalTime          |-> 0,
      rebindingTime        |-> 0 ]

m_networkSpace == NetworkConfiguration.networkSpace
m_networkSize == NetworkConfiguration.networkSize
m_dhcpFirst == NetworkConfiguration.dhcpFirst
m_dhcpLast == NetworkConfiguration.dhcpLast
m_leaseTime == NetworkConfiguration.leaseTime
m_dhcpServerIdentifier == NetworkConfiguration.dhcpServerIdentifier

\* Addresses the callers pass in: none (0), the network address, the pool,
\* an allowed address above the pool, the broadcast address and an address
\* of another network.
OtherNetworkIp == m_networkSpace + Pow2(32 - m_networkSize)
TestIps ==
    {0, m_networkSpace} \cup (m_dhcpFirst .. (m_dhcpLast + 1))
        \cup {OrNotMask(m_networkSpace, m_networkSize), OtherNetworkIp}

\* ------------------------------------------------------------------ leases
m_invalidLease == [startTime |-> 0, hwAddress |-> 0, ipAddress |-> 0]

Lease(t, hw, ip) == [startTime |-> t, hwAddress |-> hw, ipAddress |-> ip]

\* std::unordered_map: a function whose domain is the set of keys present
MapErase(m, k) == [x \in (DOMAIN m) \ {k} |-> m[x]]
MapPut(m, k, v) == [x \in (DOMAIN m) \cup {k} |-> IF x = k THEN v ELSE m[x]]
EmptyMap == [x \in {} |-> 0]

VARIABLES
    m_leasesByHw,   \* Network::m_leasesByHw
    m_leasesByIp,   \* Network::m_leasesByIp
    now,            \* std::time(nullptr)
    call,           \* the operation that ran last
    ret,            \* what the last available or reserve call returned
    booked,         \* history: per IP, the last successful reserve still standing
    offers,         \* BootpHandlerPrivate::offers, the pending offers by chaddr
    response,       \* what the engine returned for the last frame
    savedLeases     \* what SavePersistentLeases wrote to the lease file, in the
                    \* order written; << >> while the file is the one read at start

\* The threads of the queueing handler: the handler thread, one receiver
\* thread per BootpSocket, and the main thread that waits for SIGTERM.
VARIABLES
    requests,       \* std::queue<Request> requests
    outbound,       \* std::queue<BootpResponse> outbound
    running,        \* the three atomic_bool running flags
    pc,             \* where each thread is
    held,           \* the request or response a thread has in a local
    sent,           \* the responses given to sendto, in order
    accepted        \* how many datagrams recvfrom has returned

threadVars == <<requests, outbound, running, pc, held, sent, accepted>>

vars ==
    <<m_leasesByHw, m_leasesByIp, now, call, ret, booked, offers, response,
      savedLeases, threadVars>>

NumReceivers == 2
Receivers == 1 .. NumReceivers

\* BootpHandler::start and the BootpSocket constructors have run
ThreadInit ==
    /\ requests = << >>
    /\ outbound = << >>
    /\ running = [handler |-> TRUE, main |-> TRUE, socket |-> [r \in Receivers |-> TRUE]]
    /\ pc = [handler |-> "loop", main |-> "wait", socket |-> [r \in Receivers |-> "select"]]
    /\ held = [handler |-> << >>, socket |-> [r \in Receivers |-> << >>]]
    /\ sent = << >>
    /\ accepted = 0

\* The two indices as one value, so that the operations compose.
Pool(byHw, byIp) == [byHw |-> byHw, byIp |-> byIp]
ThePool == Pool(m_leasesByHw, m_leasesByIp)

getBroadcastAddress == OrNotMask(m_networkSpace, m_networkSize)

getLeaseByHw(p, hwAddress) ==
    IF hwAddress \in DOMAIN p.byHw THEN p.byHw[hwAddress] ELSE m_invalidLease

getLeaseByIp(p, ipAddress) ==
    IF ipAddress \in DOMAIN p.byIp THEN p.byIp[ipAddress] ELSE m_invalidLease

isLeaseEntryValid(lease) == lease.startTime # 0

\* variant: a valid lease never runs out
isLeaseExpired_Never(lease, t) == ~isLeaseEntryValid(lease)

isLeaseExpired(lease, t) ==
    IF ~isLeaseEntryValid(lease) THEN TRUE
    ELSE t - lease.startTime > m_leaseTime

\* Network::isIpAllowed for a network networkSpace/networkSize
isIpAllowedIn(networkSpace, networkSize, ipAddress) ==
    /\ AndMask(ipAddress, networkSize) = AndMask(networkSpace, networkSize)
    /\ ipAddress # networkSpace
    /\ ipAddress # AndNotMask(networkSpace, networkSize)

isIpAllowed(ipAddress) == isIpAllowedIn(m_networkSpace, m_networkSize, ipAddress)

addLease(p, hwAddress, ipAddress, t) ==
    LET lease == Lease(t, hwAddress, ipAddress)
    IN  Pool(MapPut(p.byHw, hwAddress, lease), MapPut(p.byIp, ipAddress, lease))

removeLeaseByHw(p, hwAddress) ==
    LET lease == getLeaseByHw(p, hwAddress)
    IN  IF ~isLeaseEntryValid(lease) THEN p
        ELSE Pool(MapErase(p.byHw, hwAddress), MapErase(p.byIp, lease.ipAddress))

\* variant: the entry of the hardware address stays
removeLeaseByIp_KeepsHw(p, ipAddress) ==
    LET lease == getLeaseByIp(p, ipAddress)
    IN  IF ~isLeaseEntryValid(lease) THEN p
        ELSE Pool(p.byHw, MapErase(p.byIp, ipAddress))

removeLeaseByIp(p, ipAddress) ==
    LET lease == getLeaseByIp(p, ipAddress)
    IN  IF ~isLeaseEntryValid(lease) THEN p
        ELSE Pool(MapErase(p.byHw, lease.hwAddress), MapErase(p.byIp, ipAddress))

\* The linear scan of the dynamic range; 0 when nothing is free.
FirstAvailable(p, t) ==
    LET free == {ip \in m_dhcpFirst .. m_dhcpLast :
                    LET lease == getLeaseByIp(p, ip)
                    IN  ~isLeaseEntryValid(lease) \/ isLeaseExpired(lease, t)}
    IN  IF free = {} THEN 0
        ELSE CHOOSE ip \in free : \A other \in free : ip <= other

\* variant: a free preferred address is taken before the sender's own lease
getAvailableAddress_PreferredFirst(p, hardwareAddress, preferredIpAddress, t) ==
    LET preferred ==
            IF preferredIpAddress # 0 /\ ~isIpAllowed(preferredIpAddress)
            THEN 0 ELSE preferredIpAddress
        p1 ==
            IF preferred # 0
               /\ isLeaseEntryValid(getLeaseByIp(p, preferred))
               /\ isLeaseExpired(getLeaseByIp(p, preferred), t)
            THEN removeLeaseByIp(p, preferred) ELSE p
        own == getLeaseByHw(p1, hardwareAddress)
        p2 ==
            IF isLeaseEntryValid(own) /\ isLeaseExpired(own, t)
            THEN removeLeaseByHw(p1, hardwareAddress) ELSE p1
    IN  IF preferred # 0 /\ ~isLeaseEntryValid(getLeaseByIp(p2, preferred))
        THEN [pool |-> p2, address |-> preferred]
        ELSE IF isLeaseEntryValid(own) /\ ~isLeaseExpired(own, t)
        THEN [pool |-> p1, address |-> own.ipAddress]
        ELSE [pool |-> p2, address |-> FirstAvailable(p2, t)]

\* Network::getAvailableAddress: the pool it leaves and the address returned
getAvailableAddress(p, hardwareAddress, preferredIpAddress, t) ==
    LET preferred ==
            IF preferredIpAddress # 0 /\ ~isIpAllowed(preferredIpAddress)
            THEN 0 ELSE preferredIpAddress
        p1 ==
            IF preferred # 0
               /\ isLeaseEntryValid(getLeaseByIp(p, preferred))
               /\ isLeaseExpired(getLeaseByIp(p, preferred), t)
            THEN removeLeaseByIp(p, preferred) ELSE p
        own == getLeaseByHw(p1, hardwareAddress)
        p2 ==
            IF isLeaseEntryValid(own) /\ isLeaseExpired(own, t)
            THEN removeLeaseByHw(p1, hardwareAddress) ELSE p1
    IN  IF isLeaseEntryValid(own) /\ ~isLeaseExpired(own, t)
        THEN [pool |-> p1, address |-> own.ipAddress]
        ELSE IF preferred # 0 /\ ~isLeaseEntryValid(getLeaseByIp(p2, preferred))
        THEN [pool |-> p2, address |-> preferred]
        ELSE [pool |-> p2, address |-> FirstAvailable(p2, t)]

\* Network::reserveAddress: the pool it leaves and the result
reserveAddress(p, hardwareAddress, ipAddress, t) ==
    LET onIp == getLeaseByIp(p, ipAddress)
        own == getLeaseByHw(p, hardwareAddress)
        p1 ==
            IF isLeaseEntryValid(own) /\ own.ipAddress # ipAddress
            THEN removeLeaseByHw(p, hardwareAddress) ELSE p
    IN  IF ~isIpAllowed(ipAddress)
        THEN [pool |-> p, ok |-> FALSE]
        ELSE IF ~isLeaseExpired(onIp, t) /\ onIp.hwAddress # hardwareAddress
        THEN [pool |-> p, ok |-> FALSE]
        ELSE [pool |-> addLease(p1, hardwareAddress, ipAddress, t), ok |-> TRUE]

releaseAddress(p, ipAddress) == removeLeaseByIp(p, ipAddress)

\* Network::configure, the lease part: both indices are rebuilt from the list
RECURSIVE LoadLeases(_, _)
LoadLeases(p, leases) ==
    IF leases = << >> THEN p
    ELSE LET lease == Head(leases)
         IN  LoadLeases(Pool(MapPut(p.byHw, lease.hwAddress, lease),
                             MapPut(p.byIp, lease.ipAddress, lease)),
                        Tail(leases))

configure(leases) == LoadLeases(Pool(EmptyMap, EmptyMap), leases)

\* Lease lists a previous run can have stored: no two leases share a
\* hardware address or an IP.
InitialLeases ==
    { << >>,
      << Lease(1, 1, m_dhcpFirst) >>,
      << Lease(1, 1, m_dhcpFirst), Lease(1, 2, m_dhcpLast) >>,
      << Lease(1, 2, OtherNetworkIp) >> }

\* ------------------------------------------------------------ BOOTP frames
BOOTP_Request == 1
BOOTP_Reply == 2

Option_SubnetMask == 1
Option_Router == 3
Option_DomainNameServer == 6
Option_BroadcastAddress == 28
Option_RequestedIp == 50
Option_IPLeaseTime == 51
Option_MessageType == 53
Option_ServerIdentifier == 54
Option_ParameterRequestList == 55
Option_RenewalTime == 58
Option_RebindingTime == 59

DHCP_UnknownMessage == 0
DHCP_Discover == 1
DHCP_Offer == 2
DHCP_Request == 3
DHCP_Decline == 4
DHCP_ACK == 5
DHCP_NAK == 6
DHCP_Release == 7

Magic == 1669485411     \* 0x63825363

\* A frame's options: a map from option key to the option's values (the
\* message type, the integer, the IP list or the parameter list).
NoOptions == [k \in {} |-> << >>]

\* BOOTP{}: the default-constructed frame
DefaultBOOTP ==
    [ operation |-> BOOTP_Reply, hardwareType |-> 1, hardwareAddressLength |-> 6,
      hops |-> 0, transactionId |-> 0, secondsElapsed |-> 0, flags |-> 0,
      ciaddr |-> 0, yiaddr |-> 0, siaddr |-> 0, giaddr |-> 0, chaddr |-> 0,
      magic |-> Magic, options |-> NoOptions ]

\* BOOTP::operator=(const BOOTP&): every field but the options is copied
CopyAssign(dst, src) == [src EXCEPT !.options = dst.options]

\* BOOTP::BOOTP(const BOOTP&): the copy has no options
CopyConstruct(src) == [src EXCEPT !.options = NoOptions]

\* offers[chaddr] = std::move(offer) with offer a reference to offers[chaddr]:
\* the scalar fields are assigned to themselves, and the option map is
\* move-assigned to itself, which leaves it either as it was or empty.
SelfMoveOutcomes == BOOLEAN
SelfMoveAssign(offer, kept) ==
    IF kept THEN offer ELSE [offer EXCEPT !.options = NoOptions]

getMessageType(bootp) ==
    IF Option_MessageType \in DOMAIN bootp.options
    THEN bootp.options[Option_MessageType][1]
    ELSE DHCP_UnknownMessage

getParameterList(bootp) ==
    IF Option_ParameterRequestList \in DOMAIN bootp.options
    THEN bootp.options[Option_ParameterRequestList]
    ELSE << >>

\* variant: without a usable option 50 the client's ciaddr is taken
getRequestedIpAddress_OrCiaddr(bootp) ==
    IF Option_RequestedIp \notin DOMAIN bootp.options THEN bootp.ciaddr
    ELSE IF bootp.options[Option_RequestedIp] = << >> THEN bootp.ciaddr
    ELSE bootp.options[Option_RequestedIp][1]

getRequestedIpAddress(bootp) ==
    IF Option_RequestedIp \notin DOMAIN bootp.options THEN 0
    ELSE IF bootp.options[Option_RequestedIp] = << >> THEN 0
    ELSE bootp.options[Option_RequestedIp][1]

\* (~0 << (32 - size)): the bit pattern, written as the int the expression is
SubnetMask == 0 - Pow2(32 - m_networkSize)

SeqRange(q) == {q[i] : i \in 1..Len(q)}

\* variant: the renewal and rebinding times are given to every client
provideParameterList_AllTimers(bootp, offer) ==
    LET asked == SeqRange(getParameterList(bootp))
        always ==
            [k \in {Option_MessageType, Option_ServerIdentifier, Option_IPLeaseTime,
                    Option_SubnetMask, Option_Router, Option_DomainNameServer,
                    Option_BroadcastAddress} |->
                CASE k = Option_MessageType -> << DHCP_Offer >>
                  [] k = Option_ServerIdentifier -> << m_dhcpServerIdentifier >>
                  [] k = Option_IPLeaseTime -> << m_leaseTime >>
                  [] k = Option_SubnetMask -> << SubnetMask >>
                  [] k = Option_Router -> << NetworkConfiguration.routers >>
                  [] k = Option_DomainNameServer -> NetworkConfiguration.dnsServers
                  [] OTHER -> << getBroadcastAddress >>]
        timers == {Option_RenewalTime, Option_RebindingTime}
        keys == (DOMAIN offer.options) \cup (DOMAIN always) \cup timers
    IN  [offer EXCEPT !.options =
            [k \in keys |->
                IF k \in DOMAIN always THEN always[k]
                ELSE IF k = Option_RenewalTime /\ k \in timers
                THEN << NetworkConfiguration.renewalTime >>
                ELSE IF k = Option_RebindingTime /\ k \in timers
                THEN << NetworkConfiguration.rebindingTime >>
                ELSE offer.options[k]]]

\* provideParameterList: the options of an offer for the frame bootp
provideParameterList(bootp, offer) ==
    LET asked == SeqRange(getParameterList(bootp))
        always ==
            [k \in {Option_MessageType, Option_ServerIdentifier, Option_IPLeaseTime,
                    Option_SubnetMask, Option_Router, Option_DomainNameServer,
                    Option_BroadcastAddress} |->
                CASE k = Option_MessageType -> << DHCP_Offer >>
                  [] k = Option_ServerIdentifier -> << m_dhcpServerIdentifier >>
                  [] k = Option_IPLeaseTime -> << m_leaseTime >>
                  [] k = Option_SubnetMask -> << SubnetMask >>
                  [] k = Option_Router -> << NetworkConfiguration.routers >>
                  [] k = Option_DomainNameServer -> NetworkConfiguration.dnsServers
                  [] OTHER -> << getBroadcastAddress >>]
        timers == asked \cap {Option_RenewalTime, Option_RebindingTime}
        keys == (DOMAIN offer.options) \cup (DOMAIN always) \cup timers
    IN  [offer EXCEPT !.options =
            [k \in keys |->
                IF k \in DOMAIN always THEN always[k]
                ELSE IF k = Option_RenewalTime /\ k \in timers
                THEN << NetworkConfiguration.renewalTime >>
                ELSE IF k = Option_RebindingTime /\ k \in timers
                THEN << NetworkConfiguration.rebindingTime >>
                ELSE offer.options[k]]]

\* serializeBootp: nothing when MessageType or ServerIdentifier is missing,
\* otherwise the datagram, kept here as the frame it encodes
serializeBootp(bootp) ==
    IF {Option_MessageType, Option_ServerIdentifier} \subseteq DOMAIN bootp.options
    THEN << bootp >> ELSE << >>

\* std::optional<BootpResponse>: empty, or one response
NoResponse == << >>
BootpResponse(target, data) == << [target |-> target, data |-> data[1]] >>

\* ---------------------------------------------------------- request engine
\* What a handler leaves: the pool, the offer table and the reply.
Handled(p, off, resp) == [pool |-> p, offers |-> off, response |-> resp]

\* the handler's return: nothing when the serializer gave no bytes
Returned(target, data) ==
    IF data = << >> THEN NoResponse ELSE BootpResponse(target, data)

\* variant: the client address survives
markOfferWithNak_KeepsCiaddr(offer) ==
    [offer EXCEPT
        !.options = [k \in {Option_MessageType, Option_ServerIdentifier} |->
                        IF k = Option_MessageType THEN << DHCP_NAK >>
                        ELSE << m_dhcpServerIdentifier >>],
        !.yiaddr = 0]

markOfferWithNak(offer) ==
    [offer EXCEPT
        !.options = [k \in {Option_MessageType, Option_ServerIdentifier} |->
                        IF k = Option_MessageType THEN << DHCP_NAK >>
                        ELSE << m_dhcpServerIdentifier >>],
        !.yiaddr = 0,
        !.ciaddr = 0]

\* offer.options[Option_MessageType] = DHCP_ACK
markOfferWithAck(offer) ==
    [offer EXCEPT !.options =
        [k \in (DOMAIN offer.options) \cup {Option_MessageType} |->
            IF k = Option_MessageType THEN << DHCP_ACK >> ELSE offer.options[k]]]

\* the offer built from the client's frame for `address`
BuildOffer(slot, bootp, address) ==
    provideParameterList(bootp,
        [CopyAssign(slot, bootp) EXCEPT
            !.operation = BOOTP_Reply, !.options = NoOptions, !.yiaddr = address])

\* offers[chaddr]: the entry, default-constructed when absent
OfferSlot(off, chaddr) ==
    IF chaddr \in DOMAIN off THEN off[chaddr] ELSE DefaultBOOTP

\* handleDhcpDiscover once the pool has named `r.address`
DiscoverOffered(r, off, bootp, offer, kept) ==
    IF serializeBootp(offer) = << >>
    THEN Handled(r.pool, MapPut(off, bootp.chaddr, offer), NoResponse)
    ELSE Handled(r.pool,
                 MapPut(off, bootp.chaddr, SelfMoveAssign(offer, kept)),
                 BootpResponse(r.address, serializeBootp(offer)))

DiscoverAvailable(r, off, bootp, kept) ==
    IF r.address = 0 THEN Handled(r.pool, off, NoResponse)
    ELSE DiscoverOffered(r, off, bootp,
            BuildOffer(OfferSlot(off, bootp.chaddr), bootp, r.address), kept)

\* variant: the operation of the frame is not looked at
handleDhcpDiscover_AnyOperation(p, off, bootp, t, kept) ==
    DiscoverAvailable(getAvailableAddress(p, bootp.chaddr, 0, t), off, bootp, kept)

handleDhcpDiscover(p, off, bootp, t, kept) ==
    IF bootp.operation # BOOTP_Request THEN Handled(p, off, NoResponse)
    ELSE DiscoverAvailable(getAvailableAddress(p, bootp.chaddr, 0, t), off, bootp, kept)

\* variant: the lease is looked up by the requested address
UnknownClient_ByRequestedIp(p, off, bootp) ==
    /\ bootp.chaddr \notin DOMAIN off
    /\ ~isLeaseEntryValid(getLeaseByIp(p, getRequestedIpAddress(bootp)))

\* no offer is pending for the sender and it holds no valid lease
UnknownClient(p, off, bootp) ==
    /\ bootp.chaddr \notin DOMAIN off
    /\ ~isLeaseEntryValid(getLeaseByHw(p, bootp.chaddr))

\* the offer table once a lease holder without a pending offer has been given
\* an offer for the address on record
OffersWithRecord(p, off, bootp) ==
    IF bootp.chaddr \in DOMAIN off THEN off
    ELSE MapPut(off, bootp.chaddr,
                BuildOffer(DefaultBOOTP, bootp, getLeaseByHw(p, bootp.chaddr).ipAddress))

\* variant: only the offer is compared with the request
RequestAccepted_OfferOnly(offer, requestedIpAddress, address) ==
    ~(offer.yiaddr # requestedIpAddress)

\* the binding is consistent: the offer and the pool agree with the request
RequestAccepted(offer, requestedIpAddress, address) ==
    ~(offer.yiaddr # requestedIpAddress \/ address # requestedIpAddress)

\* the address the reply to a known client is sent to
ReplyTarget(address) == address

\* variant: the sender's offer stays in the table after the answer
RequestReserved_KeepsOffer(rr, off, bootp, offer, address) ==
    Handled(rr.pool, off,
            Returned(ReplyTarget(address),
                     serializeBootp(IF rr.ok THEN markOfferWithAck(offer)
                                    ELSE markOfferWithNak(offer))))

\* handleDhcpRequest after reserveAddress returned rr
RequestReserved(rr, off, bootp, offer, address) ==
    Handled(rr.pool, MapErase(off, bootp.chaddr),
            Returned(ReplyTarget(address),
                     serializeBootp(IF rr.ok THEN markOfferWithAck(offer)
                                    ELSE markOfferWithNak(offer))))

\* handleDhcpRequest after getAvailableAddress returned r
RequestAvailable(r, off, bootp, offer, requestedIpAddress, t) ==
    IF RequestAccepted(offer, requestedIpAddress, r.address)
    THEN RequestReserved(reserveAddress(r.pool, bootp.chaddr, r.address, t),
                         off, bootp, offer, r.address)
    ELSE Handled(r.pool, MapErase(off, bootp.chaddr),
                 Returned(ReplyTarget(r.address), serializeBootp(markOfferWithNak(offer))))

\* handleDhcpRequest for a sender with an entry in the offer table
RequestKnown(p, off, bootp, t) ==
    RequestAvailable(
        getAvailableAddress(p, bootp.chaddr, getRequestedIpAddress(bootp), t),
        off, bootp, off[bootp.chaddr], getRequestedIpAddress(bootp), t)

handleDhcpRequest(p, off, bootp, t) ==
    IF UnknownClient(p, off, bootp)
    THEN Handled(p, off,
                 Returned(getBroadcastAddress,
                          serializeBootp(markOfferWithNak(CopyConstruct(bootp)))))
    ELSE RequestKnown(p, OffersWithRecord(p, off, bootp), bootp, t)

handleDhcpRelease(p, off, bootp) ==
    Handled(releaseAddress(p, bootp.ciaddr), off, NoResponse)

\* variant: a DECLINE is not handled as a release
handleRequest_DeclineIgnored(p, off, bootp, t, kept) ==
    CASE getMessageType(bootp) = DHCP_Discover -> handleDhcpDiscover(p, off, bootp, t, kept)
      [] getMessageType(bootp) = DHCP_Request -> handleDhcpRequest(p, off, bootp, t)
      [] getMessageType(bootp) = DHCP_Release -> handleDhcpRelease(p, off, bootp)
      [] OTHER -> Handled(p, off, NoResponse)

\* BootpHandlerPrivate::handleRequest: the dispatch on option 53
handleRequest(p, off, bootp, t, kept) ==
    CASE getMessageType(bootp) = DHCP_Discover -> handleDhcpDiscover(p, off, bootp, t, kept)
      [] getMessageType(bootp) = DHCP_Request -> handleDhcpRequest(p, off, bootp, t)
      [] getMessageType(bootp) = DHCP_Release -> handleDhcpRelease(p, off, bootp)
      [] getMessageType(bootp) = DHCP_Decline -> handleDhcpRelease(p, off, bootp)
      [] OTHER -> Handled(p, off, NoResponse)

\* ------------------------------------------------------- history of reserves
NoBooking == [hw |-> 0, start |-> 0]

BookingStands(b, t) == b.hw # 0 /\ t - b.start <= m_leaseTime

\* reserve(hw, ip) returned true at time t: ip is booked by hw, and an address
\* hw had booked before is given up by hw itself.
BookReserve(bk, hw, ip, t) ==
    [x \in DOMAIN bk |->
        IF x = ip THEN [hw |-> hw, start |-> t]
        ELSE IF bk[x].hw = hw THEN NoBooking ELSE bk[x]]

BookRelease(bk, ip) ==
    [x \in DOMAIN bk |-> IF x = ip THEN NoBooking ELSE bk[x]]

\* bookings whose lease time has run out are forgotten
BookExpire(bk, t) ==
    [x \in DOMAIN bk |-> IF BookingStands(bk[x], t) THEN bk[x] ELSE NoBooking]

RECURSIVE BookLeases(_, _)
BookLeases(bk, leases) ==
    IF leases = << >> THEN bk
    ELSE BookLeases([bk EXCEPT ![Head(leases).ipAddress] =
                        [hw |-> Head(leases).hwAddress, start |-> Head(leases).startTime]],
                    Tail(leases))

\* ------------------------------------------------------------------- states
Init ==
    \E leases \in InitialLeases :
        /\ m_leasesByHw = configure(leases).byHw
        /\ m_leasesByIp = configure(leases).byIp
        /\ now = 1
        /\ call = "configure"
        /\ ret = 0
        /\ booked = BookLeases([x \in TestIps \cup {OtherNetworkIp} |-> NoBooking], leases)
        /\ offers = EmptyMap
        /\ response = NoResponse
        /\ savedLeases = << >>
        /\ ThreadInit

\* -------------------------------------------------- the pool's public calls
Available(hw, preferred) ==
    LET r == getAvailableAddress(ThePool, hw, preferred, now)
    IN  /\ m_leasesByHw' = r.pool.byHw
        /\ m_leasesByIp' = r.pool.byIp
        /\ call' = "available"
        /\ ret' = r.address
        /\ UNCHANGED <<now, booked, offers, response, savedLeases, threadVars>>

Reserve(hw, ip) ==
    LET r == reserveAddress(ThePool, hw, ip, now)
    IN  /\ m_leasesByHw' = r.pool.byHw
        /\ m_leasesByIp' = r.pool.byIp
        /\ call' = "reserve"
        /\ ret' = r.ok
        /\ booked' = IF r.ok THEN BookReserve(booked, hw, ip, now) ELSE booked
        /\ UNCHANGED <<now, offers, response, savedLeases, threadVars>>

Release(ip) ==
    LET p == releaseAddress(ThePool, ip)
    IN  /\ m_leasesByHw' = p.byHw
        /\ m_leasesByIp' = p.byIp
        /\ call' = "release"
        /\ booked' = BookRelease(booked, ip)
        /\ UNCHANGED <<now, ret, offers, response, savedLeases, threadVars>>

\* a second passes
Tick ==
    /\ now < MaxTime
    /\ now' = now + 1
    /\ call' = "tick"
    /\ booked' = BookExpire(booked, now + 1)
    /\ UNCHANGED <<m_leasesByHw, m_leasesByIp, ret, offers, response, savedLeases, threadVars>>

Next ==
    \/ \E hw \in HwAddrs, preferred \in TestIps : Available(hw, preferred)
    \/ \E hw \in HwAddrs, ip \in TestIps : Reserve(hw, ip)
    \/ \E ip \in TestIps : Release(ip)
    \/ Tick

Spec == Init /\ [][Next]_vars

\* ------------------------------------------------- frames the engine is given
ParameterLists ==
    { << >>, << Option_SubnetMask, Option_RenewalTime, Option_RebindingTime >> }
RequestedIps == {m_dhcpFirst, m_dhcpLast, m_dhcpLast + 1, OtherNetworkIp}
RequestedIpOptions ==
    {NoOptions} \cup
    {[k \in {Option_RequestedIp} |-> q] :
        q \in {<< >>} \cup {<< ip >> : ip \in RequestedIps}}
RequestCiaddrs == {0, m_dhcpFirst}
ReleasedIps == {0, m_dhcpFirst, m_dhcpLast, OtherNetworkIp}

ParameterOption(params) ==
    IF params = << >> THEN NoOptions
    ELSE [k \in {Option_ParameterRequestList} |-> params]

MessageTypeOption(type) ==
    IF type = DHCP_UnknownMessage THEN NoOptions
    ELSE [k \in {Option_MessageType} |-> << type >>]

\* a decoded client frame
ClientFrame(op, type, hw, ci, requested, params) ==
    [DefaultBOOTP EXCEPT
        !.operation = op, !.chaddr = hw, !.ciaddr = ci, !.transactionId = 4660,
        !.options = MessageTypeOption(type) @@ requested @@ ParameterOption(params)]

DiscoverFrames ==
    {ClientFrame(op, DHCP_Discover, hw, 0, NoOptions, params) :
        op \in {BOOTP_Request, BOOTP_Reply}, hw \in HwAddrs, params \in ParameterLists}

RequestFrames ==
    {ClientFrame(BOOTP_Request, DHCP_Request, hw, ci, requested, << >>) :
        hw \in HwAddrs, ci \in RequestCiaddrs, requested \in RequestedIpOptions}

ReleaseFrames ==
    {ClientFrame(BOOTP_Request, DHCP_Release, hw, ci, NoOptions, << >>) :
        hw \in HwAddrs, ci \in ReleasedIps}

DeclineFrames ==
    {ClientFrame(BOOTP_Request, DHCP_Decline, hw, ci, NoOptions, << >>) :
        hw \in HwAddrs, ci \in ReleasedIps}

\* no option 53, a server's message type, or an unassigned one
OtherFrames ==
    {ClientFrame(BOOTP_Request, type, hw, m_dhcpFirst, NoOptions, << >>) :
        type \in {DHCP_UnknownMessage, DHCP_Offer, DHCP_ACK, DHCP_NAK, DHCP_Release + 1},
        hw \in HwAddrs}

\* the history of reserves after the engine handled bootp and left pool p
BookHandled(bk, bootp, p, t) ==
    IF getMessageType(bootp) = DHCP_Request
    THEN IF /\ getLeaseByHw(p, bootp.chaddr).startTime = t
            /\ getLeaseByHw(p, bootp.chaddr).ipAddress = getRequestedIpAddress(bootp)
         THEN BookReserve(bk, bootp.chaddr, getRequestedIpAddress(bootp), t)
         ELSE bk
    ELSE IF getMessageType(bootp) \in {DHCP_Release, DHCP_Decline}
    THEN BookRelease(bk, bootp.ciaddr)
    ELSE bk

\* the engine's state after a handler left h
Leave(h, bootp) ==
    /\ m_leasesByHw' = h.pool.byHw
    /\ m_leasesByIp' = h.pool.byIp
    /\ offers' = h.offers
    /\ response' = h.response
    /\ booked' = BookHandled(booked, bootp, h.pool, now)
    /\ UNCHANGED <<now, ret, threadVars>>

\* BootpHandler::handleRequest on one decoded frame
Handle(bootp, kept) ==
    /\ Leave(handleRequest(ThePool, offers, bootp, now, kept), bootp)
    /\ UNCHANGED savedLeases

Discover(bootp, kept) ==
    /\ call' = "discover"
    /\ Handle(bootp, kept)

Request(bootp) ==
    /\ call' = "request"
    /\ Handle(bootp, TRUE)

ReleaseMsg(bootp) ==
    /\ call' = "release"
    /\ Handle(bootp, TRUE)

DeclineMsg(bootp) ==
    /\ call' = "decline"
    /\ Handle(bootp, TRUE)

OtherMsg(bootp) ==
    /\ call' = "other"
    /\ Handle(bootp, TRUE)

EngineNext ==
    \/ \E bootp \in DiscoverFrames, kept \in SelfMoveOutcomes : Discover(bootp, kept)
    \/ \E bootp \in RequestFrames : Request(bootp)
    \/ \E bootp \in ReleaseFrames : ReleaseMsg(bootp)
    \/ \E bootp \in DeclineFrames : DeclineMsg(bootp)
    \/ \E bootp \in OtherFrames : OtherMsg(bootp)
    \/ Tick

EngineSpec == Init /\ [][EngineNext]_vars

\* ================================================================== claims

Leases(m) == {m[k] : k \in DOMAIN m}

\* is_allowed as the specification states it: inside the network, and neither
\* the network address nor the broadcast address network_space | ~mask
SpecIsAllowed(ip) ==
    /\ AndMask(ip, m_networkSize) = AndMask(m_networkSpace, m_networkSize)
    /\ ip # m_networkSpace
    /\ ip # OrNotMask(m_networkSpace, m_networkSize)

\* C1: bijection-on-valid. Every lease with start_time > 0 stored in either
\* index is the lease the other index holds for its IP and for its hardware
\* address: leases_by_ip[L.ip].hw = L.hw and leases_by_hw[L.hw].ip = L.ip.
C1_BijectionOnValid ==
    \A L \in Leases(m_leasesByHw) \cup Leases(m_leasesByIp) :
        L.startTime > 0 =>
            /\ getLeaseByIp(ThePool, L.ipAddress).hwAddress = L.hwAddress
            /\ getLeaseByHw(ThePool, L.hwAddress).ipAddress = L.ipAddress

\* C2: no double-booking. While the reserve of hw1 on ip stands (its lease
\* time has not run out, ip was not released, and hw1 did not itself move to
\* another address), no reserve(hw2, ip) with hw2 # hw1 returns true.
C2_NoDoubleBooking ==
    [][\A hw2 \in HwAddrs, ip \in TestIps :
          (Reserve(hw2, ip) /\ ret') =>
              ~(BookingStands(booked[ip], now) /\ booked[ip].hw # hw2)]_vars

\* C3: allocation within bounds. A non-zero address returned by available
\* lies in dhcp_first..dhcp_last and is an allowed address.
C3_AllocationWithinBounds ==
    (call = "available" /\ ret # 0) =>
        (m_dhcpFirst <= ret /\ ret <= m_dhcpLast /\ SpecIsAllowed(ret))

\* C9: reserve(hw, ip) returns false and changes neither index when ip is not
\* allowed (outside the network, the network address, the broadcast address)
\* or when another hardware address holds an unexpired lease on ip.
C9_ReserveRefuses ==
    [][\A hw \in HwAddrs, ip \in TestIps :
          (/\ Reserve(hw, ip)
           /\ \/ ~SpecIsAllowed(ip)
              \/ LET onIp == getLeaseByIp(ThePool, ip)
                 IN  /\ onIp.startTime > 0
                     /\ now - onIp.startTime <= m_leaseTime
                     /\ onIp.hwAddress # hw)
          => (/\ ret' = FALSE
              /\ m_leasesByHw' = m_leasesByHw
              /\ m_leasesByIp' = m_leasesByIp)]_vars

\* C10: when reserve(hw, ip) returns true, both indices hold the lease
\* {now, hw, ip}; no other IP is still leased to hw; no other hardware
\* address still holds a lease on ip; and the leases of the other hardware
\* addresses on other IPs are as they were.
C10_ReservePostcondition ==
    [][\A hw \in HwAddrs, ip \in TestIps :
          (Reserve(hw, ip) /\ ret') =>
              LET before == ThePool
                  after == Pool(m_leasesByHw', m_leasesByIp')
              IN  /\ getLeaseByHw(after, hw) = Lease(now, hw, ip)
                  /\ getLeaseByIp(after, ip) = Lease(now, hw, ip)
                  /\ \A x \in (DOMAIN after.byIp) \ {ip} :
                        after.byIp[x].hwAddress # hw
                  /\ \A h \in (DOMAIN after.byHw) \ {hw} :
                        after.byHw[h].ipAddress # ip
                  /\ \A h \in (DOMAIN before.byHw) \ {hw} :
                        before.byHw[h].ipAddress # ip =>
                            getLeaseByHw(after, h) = before.byHw[h]
                  /\ \A x \in (DOMAIN before.byIp) \ {ip} :
                        before.byIp[x].hwAddress # hw =>
                            getLeaseByIp(after, x) = before.byIp[x]]_vars

\* ------------------------------------------------------ the request engine
\* the reply resp is a frame of message type `type`
Replied(resp, type) == resp # NoResponse /\ getMessageType(resp[1].data) = type

HoldsNoLease(hw) == ~isLeaseEntryValid(getLeaseByHw(ThePool, hw))

\* C4: Happy DORA. For a client that holds no lease and has no pending offer,
\* on a pool whose lowest free address is A, a DISCOVER with op = Request is
\* answered with an OFFER (op = Reply, yiaddr = A) sent to A, and that OFFER
\* is what the offer table holds for the client; a REQUEST for A from a
\* client with the offer for A pending, while no other client holds A, is
\* answered with an ACK for A sent to A and leaves the client a valid lease
\* on A.
C4_DiscoverStep(bootp, kept) ==
    LET hw == bootp.chaddr
        A == FirstAvailable(ThePool, now)
    IN  (/\ Discover(bootp, kept)
         /\ bootp.operation = BOOTP_Request
         /\ HoldsNoLease(hw)
         /\ hw \notin DOMAIN offers
         /\ A # 0)
        => /\ Replied(response', DHCP_Offer)
           /\ response'[1].data.operation = BOOTP_Reply
           /\ response'[1].data.yiaddr = A
           /\ response'[1].target = A
           /\ hw \in DOMAIN offers'
           /\ offers'[hw] = response'[1].data

C4_RequestStep(bootp) ==
    LET hw == bootp.chaddr
        A == getRequestedIpAddress(bootp)
    IN  (/\ Request(bootp)
         /\ HoldsNoLease(hw)
         /\ hw \in DOMAIN offers
         /\ A \in m_dhcpFirst .. m_dhcpLast
         /\ offers[hw].yiaddr = A
         /\ isLeaseExpired(getLeaseByIp(ThePool, A), now))
        => /\ Replied(response', DHCP_ACK)
           /\ response'[1].data.yiaddr = A
           /\ response'[1].target = A
           /\ hw \in DOMAIN m_leasesByHw'
           /\ isLeaseEntryValid(m_leasesByHw'[hw])
           /\ m_leasesByHw'[hw].ipAddress = A

C4_HappyDora ==
    [][ /\ \A bootp \in DiscoverFrames, kept \in SelfMoveOutcomes :
                C4_DiscoverStep(bootp, kept)
        /\ \A bootp \in RequestFrames : C4_RequestStep(bootp) ]_vars

\* C5: ACK condition. A REQUEST is answered with an ACK only if the pending
\* (or lease-synthesised) offer's yiaddr equals the requested address, the
\* pool's available address for the client is exactly the requested one and
\* the reserve of it succeeded; every other reply is a NAK, and the call
\* leaves the client's lease neither created nor refreshed.
C5_RequestStep(bootp) ==
    LET hw == bootp.chaddr
        requested == getRequestedIpAddress(bootp)
        before == getLeaseByHw(ThePool, hw)
    IN  Request(bootp) =>
        /\ Replied(response', DHCP_ACK) =>
            /\ ~UnknownClient(ThePool, offers, bootp)
            /\ OffersWithRecord(ThePool, offers, bootp)[hw].yiaddr = requested
            /\ getAvailableAddress(ThePool, hw, requested, now).address = requested
            /\ reserveAddress(getAvailableAddress(ThePool, hw, requested, now).pool,
                              hw, requested, now).ok
            /\ hw \in DOMAIN m_leasesByHw'
            /\ m_leasesByHw'[hw] = Lease(now, hw, requested)
        /\ (response' # NoResponse /\ ~Replied(response', DHCP_ACK)) =>
            /\ Replied(response', DHCP_NAK)
            /\ \/ hw \notin DOMAIN m_leasesByHw'
               \/ m_leasesByHw'[hw] = before

C5_AckCondition == [][ \A bootp \in RequestFrames : C5_RequestStep(bootp) ]_vars

\* a REQUEST was answered with an ACK and the client holds the lease
C5_AckSent ==
    /\ call = "request"
    /\ Replied(response, DHCP_ACK)
    /\ response[1].data.chaddr \in DOMAIN m_leasesByHw
    /\ m_leasesByHw[response[1].data.chaddr].ipAddress = response[1].data.yiaddr

\* C6: NAK target. Every NAK the engine produces is addressed to the
\* network's directed broadcast address, and an ACK is addressed to the
\* requested address.
C6_RequestStep(bootp) ==
    Request(bootp) =>
        /\ Replied(response', DHCP_NAK) => response'[1].target = getBroadcastAddress
        /\ Replied(response', DHCP_ACK) =>
                response'[1].target = getRequestedIpAddress(bootp)

C6_NakTarget == [][ \A bootp \in RequestFrames : C6_RequestStep(bootp) ]_vars

\* C7: NAK construction. Every NAK frame carries exactly the options
\* MessageType = NAK and ServerIdentifier = the configured server identifier,
\* and has yiaddr = 0 and ciaddr = 0.
C7_NakConstruction ==
    Replied(response, DHCP_NAK) =>
        /\ DOMAIN response[1].data.options = {Option_MessageType, Option_ServerIdentifier}
        /\ response[1].data.options[Option_MessageType] = << DHCP_NAK >>
        /\ response[1].data.options[Option_ServerIdentifier] = << m_dhcpServerIdentifier >>
        /\ response[1].data.yiaddr = 0
        /\ response[1].data.ciaddr = 0

\* a NAK built from a pending offer (it is not the unknown-client NAK, which
\* goes to the broadcast address)
C7_NakFromOffer ==
    /\ call = "request"
    /\ Replied(response, DHCP_NAK)
    /\ response[1].target # getBroadcastAddress

\* C8: REQUEST from a stranger. A REQUEST from a hardware address with no
\* offer table entry and no valid lease is answered with a NAK, and both
\* lease indices and the offer table are left as they were.
C8_RequestStep(bootp) ==
    (/\ Request(bootp)
     /\ bootp.chaddr \notin DOMAIN offers
     /\ HoldsNoLease(bootp.chaddr))
    => /\ Replied(response', DHCP_NAK)
       /\ UNCHANGED <<m_leasesByHw, m_leasesByIp, offers>>

C8_StrangerRequest == [][ \A bootp \in RequestFrames : C8_RequestStep(bootp) ]_vars

\* a stranger was NAKed while another client holds a lease
C8_StrangerNaked ==
    /\ call = "request"
    /\ Replied(response, DHCP_NAK)
    /\ response[1].target = getBroadcastAddress
    /\ response[1].data.chaddr \notin DOMAIN m_leasesByHw
    /\ response[1].data.chaddr \notin DOMAIN offers
    /\ m_leasesByIp # EmptyMap

\* ------------------------------------------------- the pool, second part
\* hw holds a lease that is valid and has not run out
HoldsUnexpiredLease(hw) ==
    /\ isLeaseEntryValid(getLeaseByHw(ThePool, hw))
    /\ now - getLeaseByHw(ThePool, hw).startTime <= m_leaseTime

\* the frame handleDhcpDiscover answers a DISCOVER of hw with, in any state
DiscoverReply(bootp, kept) ==
    handleDhcpDiscover(ThePool, offers, bootp, now, kept).response

\* C11: reuse by the same hardware address. Whenever hw holds a valid,
\* unexpired lease on X, available(hw, preferred) returns X for every
\* preferred (zero, allowed and free, or not allowed), and a DISCOVER from hw
\* is answered with an OFFER of X.
C11_ReuseSameHw ==
    \A hw \in HwAddrs :
        HoldsUnexpiredLease(hw) =>
            /\ \A preferred \in TestIps :
                  getAvailableAddress(ThePool, hw, preferred, now).address
                      = getLeaseByHw(ThePool, hw).ipAddress
            /\ \A bootp \in DiscoverFrames, kept \in SelfMoveOutcomes :
                  (bootp.chaddr = hw /\ bootp.operation = BOOTP_Request) =>
                      /\ Replied(DiscoverReply(bootp, kept), DHCP_Offer)
                      /\ DiscoverReply(bootp, kept)[1].data.yiaddr
                            = getLeaseByHw(ThePool, hw).ipAddress

\* available was called for a lease holder and gave its address back although
\* the scan of the pool would have named another one
C11_Reused ==
    /\ call = "available"
    /\ \E hw \in HwAddrs :
          /\ HoldsUnexpiredLease(hw)
          /\ ret = getLeaseByHw(ThePool, hw).ipAddress
          /\ FirstAvailable(ThePool, now) \notin {0, ret}

\* C12: allocation policy for a hardware address without an unexpired lease.
\* available(hw, preferred) returns preferred when it is non-zero, allowed and
\* carries no unexpired lease; otherwise the lowest address of
\* dhcp_first..dhcp_last whose lease is absent or expired, and 0 only if there
\* is none. A preferred address that is not allowed gives what preferred = 0
\* gives.
C12_Expected(preferred) ==
    IF /\ preferred # 0
       /\ SpecIsAllowed(preferred)
       /\ isLeaseExpired(getLeaseByIp(ThePool, preferred), now)
    THEN preferred
    ELSE FirstAvailable(ThePool, now)

C12_AllocationPolicy ==
    [][\A hw \in HwAddrs, preferred \in TestIps :
          (Available(hw, preferred) /\ ~HoldsUnexpiredLease(hw)) =>
              ret' = C12_Expected(preferred)]_vars

\* ------------------------------------------------------- pool exhaustion
\* The pool of N = dhcp_last - dhcp_first + 1 addresses used by N + 1 clients.
PoolAddresses == m_dhcpFirst .. m_dhcpLast
ExhaustHw == 1 .. (m_dhcpLast - m_dhcpFirst + 2)

ExhaustNext ==
    \/ \E hw \in ExhaustHw : Available(hw, 0)
    \/ \E hw \in ExhaustHw, ip \in PoolAddresses : Reserve(hw, ip)
    \/ \E ip \in PoolAddresses : Release(ip)
    \/ Tick

ExhaustSpec == Init /\ [][ExhaustNext]_vars

\* the pool addresses on which no reserve stands (never reserved, released,
\* or run out), and the lowest of them, 0 when there is none
Unreserved == {ip \in PoolAddresses : ~BookingStands(booked[ip], now)}

LowestUnreserved ==
    IF Unreserved = {} THEN 0
    ELSE CHOOSE ip \in Unreserved : \A other \in Unreserved : ip <= other

\* no reserve of hw stands
HasNoReserve(hw) ==
    \A ip \in DOMAIN booked : ~(BookingStands(booked[ip], now) /\ booked[ip].hw = hw)

\* C13: pool exhaustion. Clients that hold nothing and call available then
\* reserve receive dhcp_first, dhcp_first + 1, ..., dhcp_last in turn and
\* every such reserve returns true; once all N addresses are reserved,
\* available for a further client returns 0 for as long as none of the N
\* leases is released or runs out, and a non-zero address again afterwards.
C13_PoolExhaustion ==
    [][ /\ \A hw \in ExhaustHw :
              (Available(hw, 0) /\ HasNoReserve(hw)) => ret' = LowestUnreserved
        /\ \A hw \in ExhaustHw, ip \in PoolAddresses :
              (Reserve(hw, ip) /\ HasNoReserve(hw) /\ ip = LowestUnreserved)
                  => ret' = TRUE ]_vars

\* --------------------------------------------- isIpAllowed on any network
\* Prefix lengths whose networks fit the integers of the model, each with the
\* network number of its second block, and the addresses at the edges of it.
PrefixLengths == 2 .. 30
SpaceOf(networkSize) == Pow2(32 - networkSize)
EdgeIps(networkSize) ==
    { 0, SpaceOf(networkSize) - 1, SpaceOf(networkSize), SpaceOf(networkSize) + 1,
      OrNotMask(SpaceOf(networkSize), networkSize) - 1,
      OrNotMask(SpaceOf(networkSize), networkSize) }

\* isIpAllowed(ipAddress) is called on a Network of the given size
AllowedCall(networkSize, ipAddress) ==
    /\ call = "configure"
    /\ call' = "isIpAllowed"
    /\ ret' = [ networkSpace |-> SpaceOf(networkSize),
                networkSize |-> networkSize,
                ipAddress |-> ipAddress,
                allowed |-> isIpAllowedIn(SpaceOf(networkSize), networkSize, ipAddress) ]
    /\ UNCHANGED <<m_leasesByHw, m_leasesByIp, now, booked, offers, response, savedLeases, threadVars>>

AllowedNext ==
    \E networkSize \in PrefixLengths :
        \E ipAddress \in EdgeIps(networkSize) : AllowedCall(networkSize, ipAddress)

AllowedSpec == Init /\ [][AllowedNext]_vars

\* C14: is_allowed(ip) is true exactly when ip is inside the configured
\* network, is not the network address and is not the broadcast address
\* network_space | ~mask, for every prefix length.
C14_IsAllowed ==
    call = "isIpAllowed" =>
        ( ret.allowed <=>
            /\ AndMask(ret.ipAddress, ret.networkSize)
                  = AndMask(ret.networkSpace, ret.networkSize)
            /\ ret.ipAddress # ret.networkSpace
            /\ ret.ipAddress # OrNotMask(ret.networkSpace, ret.networkSize) )

\* C15: release(ip) removes the lease keyed by ip from leases_by_ip together
\* with its paired entry in leases_by_hw, leaves every other lease unchanged
\* and is idempotent; release of an address with no lease changes nothing.
C15_ReleaseStep(ip) ==
    LET before == ThePool
        after == Pool(m_leasesByHw', m_leasesByIp')
        L == getLeaseByIp(before, ip)
    IN  Release(ip) =>
        /\ ~isLeaseEntryValid(getLeaseByIp(after, ip))
        /\ isLeaseEntryValid(L) => getLeaseByHw(after, L.hwAddress) # L
        /\ ~isLeaseEntryValid(L) => after = before
        /\ DOMAIN after.byIp \subseteq DOMAIN before.byIp
        /\ DOMAIN after.byHw \subseteq DOMAIN before.byHw
        /\ \A x \in (DOMAIN before.byIp) \ {ip} :
              getLeaseByIp(after, x) = before.byIp[x]
        /\ \A h \in DOMAIN before.byHw :
              before.byHw[h].ipAddress # ip => getLeaseByHw(after, h) = before.byHw[h]
        /\ releaseAddress(after, ip) = after

C15_ReleaseIdempotent == [][ \A ip \in TestIps : C15_ReleaseStep(ip) ]_vars

\* a release took the lease on dhcp_first away and the other client's lease
\* on dhcp_last is still in both indices
C15_Released ==
    /\ call = "release"
    /\ booked[m_dhcpFirst] = NoBooking
    /\ DOMAIN m_leasesByIp = {m_dhcpLast}
    /\ DOMAIN m_leasesByHw = {m_leasesByIp[m_dhcpLast].hwAddress}


\* C16: immediately after configure(config, initial_leases) the two indices
\* are a bijection and every stored lease has start_time > 0 and an allowed
\* IP, because configure drops the leases that are invalid or outside the
\* configured network.
C16_ConfigureFilters ==
    call = "configure" =>
        \A L \in Leases(m_leasesByHw) \cup Leases(m_leasesByIp) :
            /\ L.startTime > 0
            /\ SpecIsAllowed(L.ipAddress)
            /\ getLeaseByIp(ThePool, L.ipAddress) = L
            /\ getLeaseByHw(ThePool, L.hwAddress) = L


\* ---------------------------------------------------- static reservations
\* NetworkConfiguration::reservations as Network keeps them: the address
\* reserved for a hardware address
m_reservationByHw == MapPut(EmptyMap, 1, m_dhcpLast)

ReservedFor(hardwareAddress) ==
    IF hardwareAddress \in DOMAIN m_reservationByHw
    THEN m_reservationByHw[hardwareAddress] ELSE 0

\* getAvailableAddress with the reservations of the configuration: the
\* address reserved for the hardware address comes before the preferred
\* address and before the scan when no unexpired lease is on it
getAvailableAddressReserved(p, hardwareAddress, preferredIpAddress, t) ==
    LET preferred ==
            IF preferredIpAddress # 0 /\ ~isIpAllowed(preferredIpAddress)
            THEN 0 ELSE preferredIpAddress
        p1 ==
            IF preferred # 0
               /\ isLeaseEntryValid(getLeaseByIp(p, preferred))
               /\ isLeaseExpired(getLeaseByIp(p, preferred), t)
            THEN removeLeaseByIp(p, preferred) ELSE p
        own == getLeaseByHw(p1, hardwareAddress)
        p2 ==
            IF isLeaseEntryValid(own) /\ isLeaseExpired(own, t)
            THEN removeLeaseByHw(p1, hardwareAddress) ELSE p1
        reserved == ReservedFor(hardwareAddress)
    IN  IF isLeaseEntryValid(own) /\ ~isLeaseExpired(own, t)
        THEN [pool |-> p1, address |-> own.ipAddress]
        ELSE IF reserved # 0 /\ isLeaseExpired(getLeaseByIp(p2, reserved), t)
        THEN [pool |-> p2, address |-> reserved]
        ELSE IF preferred # 0 /\ ~isLeaseEntryValid(getLeaseByIp(p2, preferred))
        THEN [pool |-> p2, address |-> preferred]
        ELSE [pool |-> p2, address |-> FirstAvailable(p2, t)]

ReservedAvailable(hw, preferred) ==
    LET r == getAvailableAddressReserved(ThePool, hw, preferred, now)
    IN  /\ m_leasesByHw' = r.pool.byHw
        /\ m_leasesByIp' = r.pool.byIp
        /\ call' = "available"
        /\ ret' = [hardwareAddress |-> hw, preferred |-> preferred,
                   address |-> r.address]
        /\ UNCHANGED <<now, booked, offers, response, savedLeases, threadVars>>

ReservedNext ==
    \/ \E hw \in HwAddrs, preferred \in TestIps : ReservedAvailable(hw, preferred)
    \/ \E hw \in HwAddrs, ip \in TestIps : Reserve(hw, ip)
    \/ \E ip \in TestIps : Release(ip)
    \/ Tick

ReservedSpec == Init /\ [][ReservedNext]_vars

\* a hardware address other than hw has a lease on ip that has not run out
OtherHoldsUnexpired(hw, ip) ==
    \E L \in Leases(m_leasesByHw) \cup Leases(m_leasesByIp) :
        /\ L.ipAddress = ip
        /\ L.hwAddress # hw
        /\ L.startTime > 0
        /\ now - L.startTime <= m_leaseTime

\* hw has a lease on an address other than ip that has not run out
HoldsUnexpiredElsewhere(hw, ip) ==
    HoldsUnexpiredLease(hw) /\ getLeaseByHw(ThePool, hw).ipAddress # ip

ReleasedStep(ciaddr) ==
    /\ Pool(m_leasesByHw', m_leasesByIp') = releaseAddress(ThePool, ciaddr)
    /\ ~isLeaseEntryValid(getLeaseByIp(Pool(m_leasesByHw', m_leasesByIp'), ciaddr))
    /\ response' = NoResponse
    /\ offers' = offers
    /\ \A L \in Leases(m_leasesByIp) :
          L.ipAddress # ciaddr =>
              (L.ipAddress \in DOMAIN m_leasesByIp' /\ m_leasesByIp'[L.ipAddress] = L)
    /\ \A hw \in DOMAIN m_leasesByHw :
          m_leasesByHw[hw].ipAddress # ciaddr =>
              (hw \in DOMAIN m_leasesByHw' /\ m_leasesByHw'[hw] = m_leasesByHw[hw])

\* C18: handling a RELEASE or a DECLINE calls release(frame.ciaddr), gives no
\* reply and leaves the offers and the leases on all other addresses
\* unchanged; a DECLINE leaves the state a RELEASE with the same ciaddr leaves.
C18_ReleaseDecline ==
    [][ /\ \A bootp \in ReleaseFrames : ReleaseMsg(bootp) => ReleasedStep(bootp.ciaddr)
        /\ \A bootp \in DeclineFrames :
              DeclineMsg(bootp) =>
                  /\ ReleasedStep(bootp.ciaddr)
                  /\ \A other \in ReleaseFrames :
                        other.ciaddr = bootp.ciaddr =>
                            /\ Pool(m_leasesByHw', m_leasesByIp') =
                                   handleRequest(ThePool, offers, other, now, TRUE).pool
                            /\ offers' = handleRequest(ThePool, offers, other, now, TRUE).offers
                            /\ response' = handleRequest(ThePool, offers, other, now, TRUE).response
      ]_vars

\* a DECLINE took the lease on dhcp_first away, without a reply, and the
\* other client's lease on dhcp_last is still there
C18_Declined ==
    /\ call = "decline"
    /\ response = NoResponse
    /\ booked[m_dhcpFirst] = NoBooking
    /\ DOMAIN m_leasesByIp = {m_dhcpLast}
    /\ DOMAIN m_leasesByHw = {m_leasesByIp[m_dhcpLast].hwAddress}


\* The engine serving one client more than the pool has addresses.
ExhaustDiscoverFrames ==
    {ClientFrame(op, DHCP_Discover, hw, 0, NoOptions, << >>) :
        op \in {BOOTP_Request, BOOTP_Reply}, hw \in ExhaustHw}

ExhaustRequestFrames ==
    {ClientFrame(BOOTP_Request, DHCP_Request, hw, 0,
                 [k \in {Option_RequestedIp} |-> << ip >>], << >>) :
        hw \in ExhaustHw, ip \in PoolAddresses}

ExhaustEngineNext ==
    \/ \E bootp \in ExhaustDiscoverFrames, kept \in SelfMoveOutcomes : Discover(bootp, kept)
    \/ \E bootp \in ExhaustRequestFrames : Request(bootp)
    \/ \E bootp \in OtherFrames : OtherMsg(bootp)
    \/ Tick

ExhaustEngineSpec == Init /\ [][ExhaustEngineNext]_vars

\* nothing is sent and neither the lease indices nor the offers change
SilentDrop ==
    /\ response' = NoResponse
    /\ UNCHANGED <<m_leasesByHw, m_leasesByIp, offers>>

\* C19: silent drops. A frame without option 53 or with a message type other
\* than DISCOVER, REQUEST, RELEASE, DECLINE, and a DISCOVER whose op is not
\* Request, get no reply and change neither the lease indices nor the offers;
\* a DISCOVER for which available returns 0 gets no reply and no offer entry.
C19_SilentDrops ==
    [][ /\ \A bootp \in OtherFrames : OtherMsg(bootp) => SilentDrop
        /\ \A bootp \in ExhaustDiscoverFrames, kept \in SelfMoveOutcomes :
              Discover(bootp, kept) =>
                  /\ bootp.operation # BOOTP_Request => SilentDrop
                  /\ getAvailableAddress(ThePool, bootp.chaddr, 0, now).address = 0
                        => (response' = NoResponse /\ offers' = offers)
      ]_vars

\* a DISCOVER was handled without a reply, and a client that has no offer
\* entry finds the pool exhausted
C19_ExhaustedDiscover ==
    /\ call = "discover"
    /\ response = NoResponse
    /\ \E hw \in ExhaustHw :
          /\ hw \notin DOMAIN offers
          /\ hw \notin DOMAIN m_leasesByHw
          /\ getAvailableAddress(ThePool, hw, 0, now).address = 0


\* ------------------------------------------------------------- persistence
\* Network::getAllLeases: the leases of m_leasesByHw in the order the
\* unordered_map is walked, which is any order
getAllLeases(p) ==
    {s \in [1 .. Cardinality(Leases(p.byHw)) -> Leases(p.byHw)] :
        \A i, j \in DOMAIN s : i # j => s[i] # s[j]}

\* Configuration::SavePersistentLeases: one record per lease, in list order
SavePersistentLeases(leases) == leases

\* Configuration::GetPersistentLeasesByFile: the records in file order, those
\* with startTime == 0 left out
GetPersistentLeasesByFile(file) ==
    SelectSeq(file, LAMBDA lease : lease.startTime # 0)

\* the handler threads' handleDhcpRequest: BootpHandlerPrivate's, and the
\* leases are saved when reserveAddress returned true
NotSaving(h) == [handled |-> h, save |-> FALSE]

SavingRequestReserved(rr, off, bootp, offer, address) ==
    [handled |-> RequestReserved(rr, off, bootp, offer, address), save |-> rr.ok]

SavingRequestAvailable(r, off, bootp, offer, requestedIpAddress, t) ==
    IF RequestAccepted(offer, requestedIpAddress, r.address)
    THEN SavingRequestReserved(reserveAddress(r.pool, bootp.chaddr, r.address, t),
                               off, bootp, offer, r.address)
    ELSE NotSaving(RequestAvailable(r, off, bootp, offer, requestedIpAddress, t))

SavingRequestKnown(p, off, bootp, t) ==
    SavingRequestAvailable(
        getAvailableAddress(p, bootp.chaddr, getRequestedIpAddress(bootp), t),
        off, bootp, off[bootp.chaddr], getRequestedIpAddress(bootp), t)

\* variant: the leases are never saved
handleDhcpRequestSaving_Never(p, off, bootp, t) ==
    NotSaving(handleDhcpRequest(p, off, bootp, t))

handleDhcpRequestSaving(p, off, bootp, t) ==
    IF UnknownClient(p, off, bootp)
    THEN NotSaving(handleDhcpRequest(p, off, bootp, t))
    ELSE SavingRequestKnown(p, OffersWithRecord(p, off, bootp), bootp, t)

\* the state a REQUEST leaves when handled by the saving handler
LeaveSaving(r, bootp) ==
    /\ Leave(r.handled, bootp)
    /\ IF r.save
       THEN \E leases \in getAllLeases(r.handled.pool) :
                savedLeases' = SavePersistentLeases(leases)
       ELSE savedLeases' = savedLeases

RequestSaving(bootp) ==
    /\ call' = "request"
    /\ LeaveSaving(handleDhcpRequestSaving(ThePool, offers, bootp, now), bootp)

\* the server is started again on the file it wrote: load, then configure
Restarted(leases) ==
    /\ m_leasesByHw' = configure(leases).byHw
    /\ m_leasesByIp' = configure(leases).byIp
    /\ booked' = BookLeases([x \in DOMAIN booked |-> NoBooking], leases)

Restart ==
    /\ savedLeases # << >>
    /\ Restarted(GetPersistentLeasesByFile(savedLeases))
    /\ offers' = EmptyMap
    /\ response' = NoResponse
    /\ call' = "restart"
    /\ UNCHANGED <<now, ret, savedLeases, threadVars>>

PersistNext ==
    \/ \E bootp \in DiscoverFrames, kept \in SelfMoveOutcomes : Discover(bootp, kept)
    \/ \E bootp \in RequestFrames : RequestSaving(bootp)
    \/ \E bootp \in ReleaseFrames : ReleaseMsg(bootp)
    \/ Restart
    \/ Tick

PersistSpec == Init /\ [][PersistNext]_vars


\* the restarted server holds every valid lease the server held
Restored ==
    \A hw \in DOMAIN m_leasesByHw :
        m_leasesByHw[hw].startTime > 0 =>
            /\ getLeaseByHw(Pool(m_leasesByHw', m_leasesByIp'), hw) = m_leasesByHw[hw]
            /\ getLeaseByIp(Pool(m_leasesByHw', m_leasesByIp'),
                            m_leasesByHw[hw].ipAddress) = m_leasesByHw[hw]

Option_Pad == 0
Option_End == 255

Zeroes(n) == [i \in 1 .. n |-> 0]

\* addIntegerToBufferAsBigEndian<std::uint32_t> and <std::uint16_t>
addIntegerToBufferAsBigEndian32(value) ==
    << (value \div 16777216) % 256, (value \div 65536) % 256,
       (value \div 256) % 256, value % 256 >>

addIntegerToBufferAsBigEndian16(value) ==
    << (value \div 256) % 256, value % 256 >>

\* readBigEndianIntegerFromBuffer<T>(buffer, offset); offsets count from 0
readBigEndianIntegerFromBuffer32(buffer, offset) ==
    (IF buffer[offset + 1] >= 128 THEN buffer[offset + 1] - 256 ELSE buffer[offset + 1])
        * 16777216
    + buffer[offset + 2] * 65536 + buffer[offset + 3] * 256 + buffer[offset + 4]

readBigEndianIntegerFromBuffer16(buffer, offset) ==
    buffer[offset + 1] * 256 + buffer[offset + 2]

\* buffer.subspan(n)
Subspan(buffer, n) == SubSeq(buffer, n + 1, Len(buffer))

\* which BOOTPOption class the engine and the parser use for a key
IntegerKeys ==
    {Option_ServerIdentifier, Option_IPLeaseTime, Option_RenewalTime, Option_RebindingTime}
IpListKeys ==
    {Option_SubnetMask, Option_Router, Option_DomainNameServer,
     Option_BroadcastAddress, Option_RequestedIp}

RECURSIVE SerializeIps(_)
SerializeIps(ips) ==
    IF ips = << >> THEN << >>
    ELSE addIntegerToBufferAsBigEndian32(Head(ips)) \o SerializeIps(Tail(ips))

\* BOOTPOption::serialize of the option stored under key: length byte, payload
serializeOption(key, value) ==
    IF key = Option_MessageType THEN << 1, value[1] >>
    ELSE IF key = Option_ParameterRequestList THEN << Len(value) % 256 >> \o value
    ELSE IF key \in IntegerKeys THEN << 4 >> \o addIntegerToBufferAsBigEndian32(value[1])
    ELSE << (Len(value) * 4) % 256 >> \o SerializeIps(value)

\* the 240 bytes before the options
SerializeHeader(bootp) ==
    << bootp.operation, bootp.hardwareType, bootp.hardwareAddressLength, bootp.hops >>
    \o addIntegerToBufferAsBigEndian32(bootp.transactionId)
    \o addIntegerToBufferAsBigEndian16(bootp.secondsElapsed)
    \o addIntegerToBufferAsBigEndian16(bootp.flags)
    \o addIntegerToBufferAsBigEndian32(bootp.ciaddr)
    \o addIntegerToBufferAsBigEndian32(bootp.yiaddr)
    \o addIntegerToBufferAsBigEndian32(bootp.siaddr)
    \o addIntegerToBufferAsBigEndian32(bootp.giaddr)
    \o << 0, 0 >> \o addIntegerToBufferAsBigEndian32(bootp.chaddr) \o << 0, 0 >>
    \o Zeroes(8)
    \o Zeroes(64 + 128)
    \o addIntegerToBufferAsBigEndian32(bootp.magic)

\* the loop over bootp.options, which walks the unordered_map in `order`
RECURSIVE SerializeOthers(_, _)
SerializeOthers(bootp, order) ==
    IF order = << >> THEN << >>
    ELSE << Head(order) >> \o serializeOption(Head(order), bootp.options[Head(order)])
         \o SerializeOthers(bootp, Tail(order))

EndPadded(data) ==
    IF 300 - Len(data) > 0 THEN data \o Zeroes(300 - Len(data)) ELSE data

\* the orders in which the loop can meet the options other than 53 and 54
OtherKeys(bootp) ==
    (DOMAIN bootp.options) \ {Option_MessageType, Option_ServerIdentifier}

OptionOrders(bootp) ==
    {s \in [1 .. Cardinality(OtherKeys(bootp)) -> OtherKeys(bootp)] :
        \A i, j \in DOMAIN s : i # j => s[i] # s[j]}

\* variant: the options are written as the map holds them, 53 and 54 not first
serializeBootpData_Unordered(bootp, order) ==
    IF ~({Option_MessageType, Option_ServerIdentifier} \subseteq DOMAIN bootp.options)
    THEN << >>
    ELSE EndPadded(
            SerializeHeader(bootp)
            \o SerializeOthers(bootp, order)
            \o << Option_MessageType >>
            \o serializeOption(Option_MessageType, bootp.options[Option_MessageType])
            \o << Option_ServerIdentifier >>
            \o serializeOption(Option_ServerIdentifier,
                               bootp.options[Option_ServerIdentifier])
            \o << Option_End >>)

\* serializeBootp, the bytes
serializeBootpData(bootp, order) ==
    IF ~({Option_MessageType, Option_ServerIdentifier} \subseteq DOMAIN bootp.options)
    THEN << >>
    ELSE EndPadded(
            SerializeHeader(bootp)
            \o << Option_MessageType >>
            \o serializeOption(Option_MessageType, bootp.options[Option_MessageType])
            \o << Option_ServerIdentifier >>
            \o serializeOption(Option_ServerIdentifier,
                               bootp.options[Option_ServerIdentifier])
            \o SerializeOthers(bootp, order)
            \o << Option_End >>)


\* What a parse gives: "true" or "false" as returned, or "undefined" when it
\* reads past the end of the span (front() or operator[] or subspan outside
\* the span), with the options gathered so far.
Parsed(status, options) == [status |-> status, options |-> options]

\* deserializeIpList on the bytes after the key
deserializeIpList(buffer) ==
    LET count == buffer[1] \div 4
        body == Subspan(buffer, 1)
    IN  IF Len(body) >= 4 * count
        THEN Parsed("true",
                    [i \in 1 .. count |->
                        readBigEndianIntegerFromBuffer32(body, 4 * (i - 1))])
        ELSE IF Len(body) % 4 = 0 THEN Parsed("undefined", << >>)
        ELSE Parsed("false", << >>)

\* deserializeParameterList on the bytes after the key
deserializeParameterList(buffer) ==
    IF Len(buffer) >= buffer[1] + 1
    THEN Parsed("true", SubSeq(buffer, 2, buffer[1] + 1))
    ELSE Parsed("undefined", << >>)

\* the step after the switch: buffer = buffer.subspan(buffer.front() + 1)
RECURSIVE deserializeBootpOptions(_, _)
SkipOption(buffer, options) ==
    IF buffer[1] + 1 > Len(buffer) THEN Parsed("undefined", options)
    ELSE deserializeBootpOptions(Subspan(buffer, buffer[1] + 1), options)

\* the switch on a key that is followed by at least one byte
ParseOption(option, buffer, options) ==
    IF option \in IpListKeys
    THEN IF deserializeIpList(buffer).status # "true"
         THEN Parsed(deserializeIpList(buffer).status, options)
         ELSE SkipOption(buffer, MapPut(options, option, deserializeIpList(buffer).options))
    ELSE IF option = Option_ParameterRequestList
    THEN IF deserializeParameterList(buffer).status # "true"
         THEN Parsed("undefined", options)
         ELSE SkipOption(buffer,
                         MapPut(options, option, deserializeParameterList(buffer).options))
    ELSE IF option = Option_MessageType
    THEN IF buffer[1] # 1 THEN Parsed("false", options)
         ELSE IF Len(buffer) < 2 THEN Parsed("undefined", options)
         ELSE SkipOption(buffer, MapPut(options, option, << buffer[2] >>))
    ELSE SkipOption(buffer, options)

deserializeBootpOptions(buffer, options) ==
    IF buffer = << >> THEN Parsed("false", options)
    ELSE IF Head(buffer) = Option_Pad THEN deserializeBootpOptions(Tail(buffer), options)
    ELSE IF Head(buffer) = Option_End THEN Parsed("true", options)
    ELSE IF Tail(buffer) = << >> THEN Parsed("undefined", options)
    ELSE ParseOption(Head(buffer), Tail(buffer), options)

\* the header fields deserializeBootp reads
DeserializeHeader(data) ==
    [ operation |-> data[1], hardwareType |-> data[2],
      hardwareAddressLength |-> data[3], hops |-> data[4],
      transactionId |-> readBigEndianIntegerFromBuffer32(data, 4),
      secondsElapsed |-> readBigEndianIntegerFromBuffer16(data, 8),
      flags |-> readBigEndianIntegerFromBuffer16(data, 10),
      ciaddr |-> readBigEndianIntegerFromBuffer32(data, 12),
      yiaddr |-> readBigEndianIntegerFromBuffer32(data, 16),
      siaddr |-> readBigEndianIntegerFromBuffer32(data, 20),
      giaddr |-> readBigEndianIntegerFromBuffer32(data, 24),
      chaddr |-> readBigEndianIntegerFromBuffer32(data, 30),
      magic |-> readBigEndianIntegerFromBuffer32(data, 236),
      options |-> NoOptions ]

Deserialized(status, bootp) == [status |-> status, bootp |-> bootp]

DeserializeOptions(parsed, header) ==
    Deserialized(parsed.status, [header EXCEPT !.options = parsed.options])

\* variant: the magic cookie is not looked at
deserializeBootp_AnyMagic(data) ==
    IF Len(data) < 241 THEN Deserialized("false", DefaultBOOTP)
    ELSE DeserializeOptions(deserializeBootpOptions(Subspan(data, 240), NoOptions),
                            DeserializeHeader(data))

\* deserializeBootp: the result and the frame filled in
deserializeBootp(data) ==
    IF Len(data) < 241 THEN Deserialized("false", DefaultBOOTP)
    ELSE IF readBigEndianIntegerFromBuffer32(data, 236) # Magic
    THEN Deserialized("false", DefaultBOOTP)
    ELSE DeserializeOptions(deserializeBootpOptions(Subspan(data, 240), NoOptions),
                            DeserializeHeader(data))

\* what the caller can see of a result: reading outside the span can make
\* the call return either value
ReturnValues(status) ==
    IF status = "undefined" THEN BOOLEAN ELSE {status = "true"}


\* Frames handed to serializeBootp: a header with every field set, and options
\* of the recognised keys, two besides 53 and 54 at most, or 53 or 54 missing.
CodecOptions ==
    [k \in IntegerKeys \cup IpListKeys
            \cup {Option_MessageType, Option_ParameterRequestList} |->
        CASE k = Option_MessageType -> << DHCP_Offer >>
          [] k = Option_ServerIdentifier -> << m_dhcpServerIdentifier >>
          [] k = Option_IPLeaseTime -> << m_leaseTime >>
          [] k = Option_RenewalTime -> << 1800 >>
          [] k = Option_RebindingTime -> << 3150 >>
          [] k = Option_SubnetMask -> << SubnetMask >>
          [] k = Option_Router -> << NetworkConfiguration.routers >>
          [] k = Option_DomainNameServer -> << NetworkConfiguration.routers, OtherNetworkIp >>
          [] k = Option_BroadcastAddress -> << getBroadcastAddress >>
          [] k = Option_RequestedIp -> << m_dhcpFirst >>
          [] OTHER -> << Option_SubnetMask, Option_RenewalTime >>]

CodecHeaders ==
    {[DefaultBOOTP EXCEPT
        !.operation = op, !.hops = 1, !.transactionId = 4660,
        !.secondsElapsed = 258, !.flags = 32768, !.ciaddr = m_dhcpFirst,
        !.yiaddr = m_dhcpLast, !.siaddr = m_dhcpServerIdentifier,
        !.giaddr = SubnetMask, !.chaddr = hw] :
            op \in {BOOTP_Request, BOOTP_Reply}, hw \in HwAddrs}

CodecKeySets ==
    {S \in SUBSET (DOMAIN CodecOptions) :
        \/ /\ {Option_MessageType, Option_ServerIdentifier} \subseteq S
           /\ Cardinality(S) <= 4
        \/ /\ ~({Option_MessageType, Option_ServerIdentifier} \subseteq S)
           /\ Cardinality(S) <= 2}

CodecFrames ==
    {[h EXCEPT !.options = [k \in S |-> CodecOptions[k]]] :
        h \in CodecHeaders, S \in CodecKeySets}

\* serializeBootp(bootp), the map walked in `order`
Serialize(bootp, order) ==
    /\ call = "configure"
    /\ call' = "serializeBootp"
    /\ ret' = [bootp |-> bootp, data |-> serializeBootpData(bootp, order)]
    /\ UNCHANGED <<m_leasesByHw, m_leasesByIp, now, booked, offers, response, savedLeases, threadVars>>

\* deserializeBootp on the datagram serializeBootp produced
Deserialize ==
    /\ call = "serializeBootp"
    /\ ret.data # << >>
    /\ call' = "deserializeBootp"
    /\ \E ok \in ReturnValues(deserializeBootp(ret.data).status) :
          ret' = [bootp |-> ret.bootp, data |-> ret.data, ok |-> ok,
                  request |-> deserializeBootp(ret.data).bootp]
    /\ UNCHANGED <<m_leasesByHw, m_leasesByIp, now, booked, offers, response, savedLeases, threadVars>>

CodecNext ==
    \/ \E bootp \in CodecFrames : \E order \in OptionOrders(bootp) : Serialize(bootp, order)
    \/ Deserialize

CodecSpec == Init /\ [][CodecNext]_vars

\* the header fields of a frame
HeaderOf(bootp) == [bootp EXCEPT !.options = NoOptions]

\* C21: codec round-trip. For a well-formed frame whose options are of the
\* recognised keys and include 53 and 54, decode(encode(F)) succeeds and
\* gives the header fields and the option keys and values of F.
C21_RoundTrip ==
    call = "deserializeBootp" =>
        /\ ret.ok
        /\ HeaderOf(ret.request) = HeaderOf(ret.bootp)
        /\ ret.request.options = ret.bootp.options


\* ------------------------------------------------ datagrams from the socket
\* What clients put on the wire: the header, then the options in the order
\* 53, 50, 55, as the frame holds them.
ClientBody(bootp) ==
    SerializeHeader(bootp)
    \o SerializeOthers(bootp,
            SelectSeq(<< Option_MessageType, Option_RequestedIp,
                         Option_ParameterRequestList >>,
                      LAMBDA k : k \in DOMAIN bootp.options))

DatagramFrames ==
    UNION {
        { ClientFrame(BOOTP_Request, DHCP_UnknownMessage, hw, 0, NoOptions, << >>),
          ClientFrame(BOOTP_Request, DHCP_Discover, hw, 0, NoOptions, << >>),
          ClientFrame(BOOTP_Request, DHCP_Discover, hw, 0, NoOptions,
                      << Option_SubnetMask, Option_RenewalTime >>),
          ClientFrame(BOOTP_Request, DHCP_Request, hw, 0,
                      [k \in {Option_RequestedIp} |-> << m_dhcpFirst >>], << >>) } :
        hw \in HwAddrs }

\* The datagrams received: each client frame closed with End, left without
\* End, with a byte of the magic cookie changed, cut to 239 bytes; and on the
\* header of a frame a message type of length 2 or 0, first or after another
\* option, and a parameter list cut short.
Datagrams ==
    UNION {
        { ClientBody(f) \o << Option_End >>,
          ClientBody(f),
          ClientBody(f) \o << Option_Pad, Option_Pad >>,
          [ClientBody(f) \o << Option_End >> EXCEPT ![240] = 0],
          SubSeq(ClientBody(f), 1, 239) } : f \in DatagramFrames }
    \cup { SerializeHeader(ClientFrame(BOOTP_Request, DHCP_UnknownMessage, 1, 0,
                                       NoOptions, << >>)) \o tail :
            tail \in { << Option_MessageType, 2, DHCP_Discover, 0, Option_End >>,
                       << Option_MessageType, 0, Option_End >>,
                       << Option_RequestedIp, 4, 10, 0, 0, 10,
                          Option_MessageType, 2, DHCP_Request, 0, Option_End >>,
                       << Option_MessageType, 1, DHCP_Discover,
                          Option_ParameterRequestList, 3, Option_SubnetMask >> } }

\* BootpHandler::handleRequest(std::span<const std::uint8_t>): a datagram that
\* does not deserialize is logged and gives std::nullopt, any other is handed
\* to BootpHandlerPrivate::handleRequest.
Received(ok, request, data, kept, h) ==
    /\ call' = "receive"
    /\ ret' = [data |-> data, ok |-> ok, request |-> request]
    /\ m_leasesByHw' = IF ok THEN h.pool.byHw ELSE m_leasesByHw
    /\ m_leasesByIp' = IF ok THEN h.pool.byIp ELSE m_leasesByIp
    /\ offers' = IF ok THEN h.offers ELSE offers
    /\ response' = IF ok THEN h.response ELSE NoResponse
    /\ booked' = IF ok THEN BookHandled(booked, request, h.pool, now) ELSE booked
    /\ UNCHANGED <<now, savedLeases, threadVars>>

Receive(data, kept) ==
    \E ok \in ReturnValues(deserializeBootp(data).status) :
        Received(ok, deserializeBootp(data).bootp, data, kept,
                 handleRequest(ThePool, offers, deserializeBootp(data).bootp, now, kept))

DatagramNext ==
    \E data \in Datagrams, kept \in SelfMoveOutcomes : Receive(data, kept)

DatagramSpec == Init /\ [][DatagramNext]_vars

\* the option area of a datagram, read as key, length, payload: some option
\* 53 before End has a length byte other than 1
RECURSIVE BadMessageType(_)
BadMessageType(area) ==
    IF area = << >> THEN FALSE
    ELSE IF Head(area) = Option_Pad THEN BadMessageType(Tail(area))
    ELSE IF Head(area) = Option_End \/ Len(area) < 2 THEN FALSE
    ELSE IF Head(area) = Option_MessageType /\ area[2] # 1 THEN TRUE
    ELSE IF area[2] + 2 > Len(area) THEN FALSE
    ELSE BadMessageType(SubSeq(area, area[2] + 3, Len(area)))

\* shorter than 240 bytes, or the 4 bytes at offset 236 are not 0x63825363,
\* or an option 53 whose length is not 1
Malformed(data) ==
    \/ Len(data) < 240
    \/ SubSeq(data, 237, 240) # << 99, 130, 83, 99 >>
    \/ BadMessageType(SubSeq(data, 241, Len(data)))

\* C22: malformed input is dropped. A datagram shorter than 240 bytes, with a
\* wrong magic cookie or with an option 53 of a length other than 1 does not
\* decode; and a datagram that does not decode gives no reply and leaves the
\* lease indices and the offer table as they were.
C22_MalformedDropped ==
    [][call' = "receive" =>
        /\ Malformed(ret'.data) => ~ret'.ok
        /\ ~ret'.ok =>
            /\ response' = NoResponse
            /\ UNCHANGED <<m_leasesByHw, m_leasesByIp, offers>>]_vars

\* a datagram with an option 53 of length 2 was dropped while an offer and a
\* lease were held
C22_Dropped ==
    /\ call = "receive"
    /\ ~ret.ok
    /\ BadMessageType(SubSeq(ret.data, 241, Len(ret.data)))
    /\ offers # EmptyMap
    /\ m_leasesByHw # EmptyMap
    /\ response = NoResponse

\* the option area is a run of whole options and pads with no End
RECURSIVE EndsWithoutEnd(_)
EndsWithoutEnd(area) ==
    IF area = << >> THEN TRUE
    ELSE IF Head(area) = Option_Pad THEN EndsWithoutEnd(Tail(area))
    ELSE IF Head(area) = Option_End \/ Len(area) < 2 THEN FALSE
    ELSE IF area[2] + 2 > Len(area) THEN FALSE
    ELSE EndsWithoutEnd(SubSeq(area, area[2] + 3, Len(area)))

\* C23: lenient option parsing. A datagram of at least 240 bytes with the
\* right magic cookie whose option area ends without End decodes, with the
\* options gathered, and the engine handles it by its option 53.
C23_LenientParsing ==
    (/\ call = "receive"
     /\ ~Malformed(ret.data)
     /\ EndsWithoutEnd(SubSeq(ret.data, 241, Len(ret.data))))
    => ret.ok


\* ------------------------------------------- the queueing handler's threads
MaxDatagrams == 2

\* the frames that arrive on the interface whose Network is modelled: one
\* client's DISCOVER, REQUEST for the first address, and RELEASE of it
ThreadFrames ==
    { ClientFrame(BOOTP_Request, DHCP_Discover, 1, 0, NoOptions, << >>),
      ClientFrame(BOOTP_Request, DHCP_Request, 1, 0,
                  [k \in {Option_RequestedIp} |-> << m_dhcpFirst >>], << >>),
      ClientFrame(BOOTP_Request, DHCP_Release, 1, m_dhcpFirst, NoOptions, << >>) }

\* the handler thread's handleRequest: the dispatch on option 53, with the
\* REQUEST handler that saves the leases
handleRequestSaving(p, off, bootp, t, kept) ==
    IF getMessageType(bootp) = DHCP_Request
    THEN handleDhcpRequestSaving(p, off, bootp, t)
    ELSE NotSaving(handleRequest(p, off, bootp, t, kept))

\* a thread's step changes its own place, and what it holds
At(thread, place) == [pc EXCEPT ![thread] = place]
SocketAt(r, place) == [pc EXCEPT !.socket[r] = place]

\* handlerThread: hasRequests() and getNextRequest(); the per-interface state
\* the thread sees at that moment is kept in ret
HandlerTake ==
    /\ pc.handler = "loop"
    /\ running.handler
    /\ requests # << >>
    /\ held' = [held EXCEPT !.handler = << Head(requests) >>]
    /\ requests' = Tail(requests)
    /\ pc' = At("handler", "handle")
    /\ ret' = [pool |-> ThePool, offers |-> offers]
    /\ call' = "getNextRequest"
    /\ UNCHANGED <<m_leasesByHw, m_leasesByIp, now, booked, offers, response,
                   savedLeases, outbound, running, sent, accepted>>

\* handleRequest(std::move(request)) up to the point where the response, if
\* any, is to be put in the outbound queue
Handled_Thread(r, bootp, n) ==
    /\ m_leasesByHw' = r.handled.pool.byHw
    /\ m_leasesByIp' = r.handled.pool.byIp
    /\ offers' = r.handled.offers
    /\ response' = r.handled.response
    /\ booked' = BookHandled(booked, bootp, r.handled.pool, now)
    /\ IF r.save
       THEN \E leases \in getAllLeases(r.handled.pool) :
                savedLeases' = SavePersistentLeases(leases)
       ELSE savedLeases' = savedLeases
    /\ IF r.handled.response = NoResponse
       THEN /\ pc' = At("handler", "loop")
            /\ held' = [held EXCEPT !.handler = << >>]
       ELSE /\ pc' = At("handler", "emplace")
            /\ held' = [held EXCEPT !.handler =
                            << [n |-> n, response |-> r.handled.response[1]] >>]

HandlerHandle(kept) ==
    /\ pc.handler = "handle"
    /\ Handled_Thread(handleRequestSaving(ThePool, offers, held.handler[1].bootp, now, kept),
                      held.handler[1].bootp, held.handler[1].n)
    /\ call' = "handleRequest"
    /\ UNCHANGED <<now, ret, requests, outbound, running, sent, accepted>>

\* outbound.emplace(std::move(response)) begins; responsesMutex is not taken
EmplaceBegin ==
    /\ pc.handler = "emplace"
    /\ pc' = At("handler", "emplacing")
    /\ call' = "emplace"
    /\ UNCHANGED <<m_leasesByHw, m_leasesByIp, now, ret, booked, offers, response,
                   savedLeases, requests, outbound, running, held, sent, accepted>>

\* outbound.emplace ends. If getNextResponse ran on the queue meanwhile, the
\* two unsynchronised accesses leave the element in the queue or lose it.
EmplaceEnd ==
    /\ pc.handler \in {"emplacing", "raced"}
    /\ outbound' \in
        (IF pc.handler = "raced" THEN {outbound} ELSE {})
        \cup {Append(outbound, held.handler[1])}
    /\ held' = [held EXCEPT !.handler = << >>]
    /\ pc' = At("handler", "loop")
    /\ call' = "emplaced"
    /\ UNCHANGED <<m_leasesByHw, m_leasesByIp, now, ret, booked, offers, response,
                   savedLeases, requests, running, sent, accepted>>

\* handlerThread: while (running) has become false
HandlerExit ==
    /\ pc.handler = "loop"
    /\ ~running.handler
    /\ pc' = At("handler", "done")
    /\ call' = "handlerThread"
    /\ UNCHANGED <<m_leasesByHw, m_leasesByIp, now, ret, booked, offers, response,
                   savedLeases, requests, outbound, running, held, sent, accepted>>

\* what getNextResponse can give and leave: the front, popped, or nothing from
\* an empty queue; while the handler thread is inside emplace the queue may
\* also look empty to it
Popped(queue, racing) ==
    (IF queue = << >>
     THEN {[taken |-> << >>, left |-> queue]}
     ELSE {[taken |-> << Head(queue) >>, left |-> Tail(queue)]})
    \cup (IF racing THEN {[taken |-> << >>, left |-> queue]} ELSE {})

\* socketThreadFn: select() has returned and BootpHandler::getNextResponse()
\* is called
GetNextResponse(r) ==
    /\ pc.socket[r] = "select"
    /\ running.socket[r]
    /\ \E p \in Popped(outbound, pc.handler \in {"emplacing", "raced"}) :
        /\ outbound' = p.left
        /\ held' = [held EXCEPT !.socket[r] = p.taken]
        /\ pc' = [pc EXCEPT
                    !.socket[r] = IF p.taken = << >> THEN "recv" ELSE "send",
                    !.handler = IF pc.handler = "emplacing" THEN "raced" ELSE @]
    /\ call' = "getNextResponse"
    /\ UNCHANGED <<m_leasesByHw, m_leasesByIp, now, ret, booked, offers, response,
                   savedLeases, requests, running, sent, accepted>>

\* sendResponse(response->target, response->data) on this thread's socket
SendResponse(r) ==
    /\ pc.socket[r] = "send"
    /\ sent' = Append(sent, [n |-> held.socket[r][1].n, socket |-> r])
    /\ held' = [held EXCEPT !.socket[r] = << >>]
    /\ pc' = SocketAt(r, "recv")
    /\ call' = "sendResponse"
    /\ UNCHANGED <<m_leasesByHw, m_leasesByIp, now, ret, booked, offers, response,
                   savedLeases, requests, outbound, running, accepted>>

\* select_ret < 1, or recvfrom failed: continue
NothingRead(r) ==
    /\ pc.socket[r] = "recv"
    /\ pc' = SocketAt(r, "select")
    /\ call' = "select"
    /\ UNCHANGED <<m_leasesByHw, m_leasesByIp, now, ret, booked, offers, response,
                   savedLeases, requests, outbound, running, held, sent, accepted>>

\* variant: the receiver thread handles the frame itself instead of queueing it
AddRequestData_Handles(r, bootp) ==
    /\ pc.socket[r] = "recv"
    /\ accepted < MaxDatagrams
    /\ accepted' = accepted + 1
    /\ m_leasesByHw' = handleRequest(ThePool, offers, bootp, now, TRUE).pool.byHw
    /\ m_leasesByIp' = handleRequest(ThePool, offers, bootp, now, TRUE).pool.byIp
    /\ offers' = handleRequest(ThePool, offers, bootp, now, TRUE).offers
    /\ pc' = SocketAt(r, "select")
    /\ call' = "addRequestData"
    /\ UNCHANGED <<now, ret, booked, response, savedLeases,
                   requests, outbound, running, held, sent>>

\* recvfrom returned a datagram and BootpHandler::addRequestData queued the
\* frame it holds
AddRequestData(r, bootp) ==
    /\ pc.socket[r] = "recv"
    /\ accepted < MaxDatagrams
    /\ accepted' = accepted + 1
    /\ requests' = Append(requests, [n |-> accepted + 1, bootp |-> bootp])
    /\ pc' = SocketAt(r, "select")
    /\ call' = "addRequestData"
    /\ UNCHANGED <<m_leasesByHw, m_leasesByIp, now, ret, booked, offers, response,
                   savedLeases, outbound, running, held, sent>>

\* socketThreadFn: while (running) has become false; the socket is closed
ReceiverExit(r) ==
    /\ pc.socket[r] = "select"
    /\ ~running.socket[r]
    /\ pc' = SocketAt(r, "done")
    /\ call' = "close"
    /\ UNCHANGED <<m_leasesByHw, m_leasesByIp, now, ret, booked, offers, response,
                   savedLeases, requests, outbound, running, held, sent, accepted>>

\* sigtermFn: BootpHandler::stop() sets running to false and joins the thread
Sigterm ==
    /\ pc.main = "wait"
    /\ running' = [running EXCEPT !.handler = FALSE]
    /\ pc' = At("main", "stop")
    /\ call' = "sigtermFn"
    /\ UNCHANGED <<m_leasesByHw, m_leasesByIp, now, ret, booked, offers, response,
                   savedLeases, requests, outbound, held, sent, accepted>>

\* thread.join() returned; sigtermFn sets its own running to false and main
\* leaves the wait
HandlerJoined ==
    /\ pc.main = "stop"
    /\ pc.handler = "done"
    /\ running' = [running EXCEPT !.main = FALSE]
    /\ pc' = At("main", "clear")
    /\ call' = "join"
    /\ UNCHANGED <<m_leasesByHw, m_leasesByIp, now, ret, booked, offers, response,
                   savedLeases, requests, outbound, held, sent, accepted>>

\* sockets.clear(): ~BootpSocket sets the socket's running to false ...
SocketDestroy(r) ==
    /\ pc.main = "clear"
    /\ running.socket[r]
    /\ \A q \in Receivers : q < r => pc.socket[q] = "done"
    /\ running' = [running EXCEPT !.socket[r] = FALSE]
    /\ pc' = At("main", "destroy")
    /\ call' = "~BootpSocket"
    /\ UNCHANGED <<m_leasesByHw, m_leasesByIp, now, ret, booked, offers, response,
                   savedLeases, requests, outbound, held, sent, accepted>>

\* ... and joins its receiver thread; after the last one main returns
SocketJoined ==
    /\ pc.main = "destroy"
    /\ \A r \in Receivers : ~running.socket[r] => pc.socket[r] = "done"
    /\ pc' = At("main", IF \A r \in Receivers : ~running.socket[r]
                        THEN "exited" ELSE "clear")
    /\ call' = "joined"
    /\ UNCHANGED <<m_leasesByHw, m_leasesByIp, now, ret, booked, offers, response,
                   savedLeases, requests, outbound, running, held, sent, accepted>>

ThreadNext ==
    \/ HandlerTake
    \/ \E kept \in SelfMoveOutcomes : HandlerHandle(kept)
    \/ EmplaceBegin
    \/ EmplaceEnd
    \/ HandlerExit
    \/ \E r \in Receivers : GetNextResponse(r)
    \/ \E r \in Receivers : SendResponse(r)
    \/ \E r \in Receivers : NothingRead(r)
    \/ \E bootp \in ThreadFrames : AddRequestData(1, bootp)
    \/ \E r \in Receivers : ReceiverExit(r)
    \/ Sigterm
    \/ HandlerJoined
    \/ \E r \in Receivers : SocketDestroy(r)
    \/ SocketJoined

ThreadSpec == Init /\ [][ThreadNext]_vars


\* C25: outbound ordering. Of two responses, the one the handler thread put
\* in the outbound queue first is given to sendto first, also with a receiver
\* thread per bound interface taking responses from the queue.
C25_SentInOrder ==
    \A i, j \in DOMAIN sent : i < j => sent[i].n < sent[j].n

\* C26: atomicity of per-interface state. While a request is in the handler
\* thread's hands the indices and the offer table stay as the thread found
\* them, and they change only by one whole handleRequest of that thread,
\* applied to the state it found, whatever the other threads do meanwhile.
C26_WholeOperations ==
    [][/\ pc'.handler = "handle" =>
            ret' = [pool |-> ThePool', offers |-> offers']
       /\ <<m_leasesByHw, m_leasesByIp, offers>>' # <<m_leasesByHw, m_leasesByIp, offers>> =>
            /\ pc.handler = "handle"
            /\ pc'.handler \in {"loop", "emplace"}
            /\ \E kept \in SelfMoveOutcomes :
                 /\ ThePool' = handleRequestSaving(ret.pool, ret.offers,
                                    held.handler[1].bootp, now, kept).handled.pool
                 /\ offers' = handleRequestSaving(ret.pool, ret.offers,
                                    held.handler[1].bootp, now, kept).handled.offers]_vars

\* the handler thread has finished a request that changed the leases while a
\* second request, read by a receiver thread, waits in the queue
C26_HandledAmongOthers ==
    /\ call = "handleRequest"
    /\ m_leasesByHw # ret.pool.byHw
    /\ requests # << >>

\* C27: shutdown. When the process exits after SIGTERM, the lease file holds
\* the leases of that moment: they were written one last time.
C27_FlushedAtExit ==
    (pc.main = "exited" /\ savedLeases # << >>) =>
        savedLeases \in getAllLeases(ThePool)


\* an encoded option area read as key, length, payload up to End: the keys
\* met, in order, and the bytes after End
RECURSIVE WalkOptions(_, _)
WalkOptions(area, keys) ==
    IF area = << >> THEN [keys |-> keys, ended |-> FALSE, rest |-> << >>]
    ELSE IF Head(area) = Option_End
    THEN [keys |-> keys, ended |-> TRUE, rest |-> Tail(area)]
    ELSE IF Len(area) < 2 \/ area[2] + 2 > Len(area)
    THEN [keys |-> keys, ended |-> FALSE, rest |-> << >>]
    ELSE WalkOptions(SubSeq(area, area[2] + 3, Len(area)), Append(keys, Head(area)))

EncodedWith5354(bootp, data, walk) ==
    /\ Len(data) >= 300
    /\ Len(walk.keys) = Cardinality(DOMAIN bootp.options)
    /\ walk.keys[1] = Option_MessageType
    /\ walk.keys[2] = Option_ServerIdentifier
    /\ SubSeq(data, 241, 249) =
            << Option_MessageType, 1, bootp.options[Option_MessageType][1],
               Option_ServerIdentifier, 4 >>
            \o addIntegerToBufferAsBigEndian32(bootp.options[Option_ServerIdentifier][1])
    /\ {walk.keys[i] : i \in DOMAIN walk.keys} = DOMAIN bootp.options
    /\ walk.ended
    /\ \A i \in DOMAIN walk.rest : walk.rest[i] = 0

\* C24: encode layout. For a frame with options 53 and 54 the option area
\* starts at offset 240 with option 53, then option 54, then every other
\* option exactly once, then End, and zeroes up to at least 300 bytes; for a
\* frame without option 53 or 54 the result is empty and the engine returns
\* no response for it.
C24_EncodeLayout ==
    call = "serializeBootp" =>
        IF {Option_MessageType, Option_ServerIdentifier} \subseteq DOMAIN ret.bootp.options
        THEN /\ EncodedWith5354(ret.bootp, ret.data,
                    WalkOptions(SubSeq(ret.data, 241, Len(ret.data)), << >>))
             /\ serializeBootp(ret.bootp) # << >>
        ELSE /\ ret.data = << >>
             /\ Returned(ret.bootp.yiaddr, serializeBootp(ret.bootp)) = NoResponse

\* a frame with 53, 54 and two more options has been encoded
C24_EncodedFour ==
    /\ call = "serializeBootp"
    /\ Cardinality(DOMAIN ret.bootp.options) = 4
    /\ ret.data # << >>
    /\ ret.data[241] = Option_MessageType


\* lease is a valid, expired lease of a hardware address other than hw
ExpiredOfOther(lease, hw, t) ==
    /\ isLeaseEntryValid(lease)
    /\ lease.hwAddress # hw
    /\ isLeaseExpired(lease, t)

\* lease is in neither index after the step
RemovedFromBoth(lease) ==
    /\ getLeaseByIp(Pool(m_leasesByHw', m_leasesByIp'), lease.ipAddress) # lease
    /\ getLeaseByHw(Pool(m_leasesByHw', m_leasesByIp'), lease.hwAddress) # lease

\* C28: lazy expiry removal. An expired lease of another hardware address on
\* the address available returns is removed from both indices, and so is the
\* one on the address a successful reserve takes over; an expired lease on an
\* address the call did not touch stays in both.
C28_ExpiredRemoved ==
    [][/\ \A hw \in HwAddrs, preferred \in TestIps :
            (/\ Available(hw, preferred)
             /\ ret' # 0
             /\ ExpiredOfOther(getLeaseByIp(ThePool, ret'), hw, now))
            => RemovedFromBoth(getLeaseByIp(ThePool, ret'))
       /\ \A hw \in HwAddrs, ip \in TestIps :
            (/\ Reserve(hw, ip)
             /\ ret' = TRUE
             /\ ExpiredOfOther(getLeaseByIp(ThePool, ip), hw, now))
            => RemovedFromBoth(getLeaseByIp(ThePool, ip))]_vars


\* the entries of the hardware addresses other than hw are as they were
OtherOffersKept(hw) ==
    \A other \in HwAddrs \ {hw} :
        /\ (other \in DOMAIN offers') = (other \in DOMAIN offers)
        /\ other \in DOMAIN offers => offers'[other] = offers[other]

\* C29: offer table lifecycle. A DISCOVER from hw that is answered with an
\* OFFER leaves hw's entry holding that offer, also when hw had one before; no
\* entry of hw is left once a REQUEST from hw has been handled, whatever the
\* answer; RELEASE, DECLINE and unknown messages leave the table as it was,
\* and no message touches the entry of another hardware address. The sender
\* is read from the reply, and from the frame where there is no reply.
C29_OfferLifecycle ==
    [][/\ (call' = "discover" /\ response' # NoResponse) =>
            /\ response'[1].data.chaddr \in DOMAIN offers'
            /\ offers'[response'[1].data.chaddr].yiaddr = response'[1].data.yiaddr
            /\ offers'[response'[1].data.chaddr].chaddr = response'[1].data.chaddr
            /\ OtherOffersKept(response'[1].data.chaddr)
       /\ (call' = "discover" /\ response' = NoResponse) => offers' = offers
       /\ (call' = "request" /\ response' # NoResponse) =>
            /\ response'[1].data.chaddr \notin DOMAIN offers'
            /\ OtherOffersKept(response'[1].data.chaddr)
       /\ (call' = "request" /\ response' = NoResponse) =>
            \A bootp \in RequestFrames :
                Request(bootp) =>
                    /\ bootp.chaddr \notin DOMAIN offers'
                    /\ OtherOffersKept(bootp.chaddr)
       /\ call' \in {"release", "decline", "other", "tick"} => offers' = offers]_vars

\* a REQUEST was answered with an ACK and the sender's entry is gone while the
\* other client's offer is still pending
C29_AckedAndErased ==
    /\ call = "request"
    /\ response # NoResponse
    /\ response[1].data.options[Option_MessageType] = << DHCP_ACK >>
    /\ response[1].data.chaddr \notin DOMAIN offers
    /\ offers # EmptyMap


\* the options every OFFER and ACK is to carry
MandatoryKeys ==
    {Option_MessageType, Option_ServerIdentifier, Option_IPLeaseTime, Option_SubnetMask,
     Option_Router, Option_DomainNameServer, Option_BroadcastAddress}

\* reply carries the mandatory options, and of the two timers those in `listed`
CarriesParameters(reply, listed) ==
    /\ MandatoryKeys \subseteq DOMAIN reply.options
    /\ \A k \in {Option_RenewalTime, Option_RebindingTime} :
            (k \in DOMAIN reply.options) = (k \in SeqRange(listed))

Holders(p, ip, t) ==
    {hw \in HwAddrs :
        /\ isLeaseEntryValid(getLeaseByHw(p, hw))
        /\ getLeaseByHw(p, hw).ipAddress = ip
        /\ ~isLeaseExpired(getLeaseByHw(p, hw), t)}

\* C31: engine-level exclusivity. Whatever DISCOVER, REQUEST, RELEASE and
\* DECLINE frames the clients send and however time advances, an ACK for an
\* address is never given to a hardware address while the reserve of another
\* hardware address on it stands (not run out, not released), and after every
\* step at most one hardware address holds an unexpired lease on any address,
\* the one the lease_by_ip index names.
C31_EngineExclusivity ==
    [][/\ (/\ call' = "request"
           /\ response' # NoResponse
           /\ getMessageType(response'[1].data) = DHCP_ACK)
          => /\ ~(/\ BookingStands(booked[response'[1].data.yiaddr], now)
                  /\ booked[response'[1].data.yiaddr].hw # response'[1].data.chaddr)
             /\ Holders(ThePool', response'[1].data.yiaddr, now') =
                    {response'[1].data.chaddr}
       /\ \A ip \in DOMAIN booked :
            /\ Cardinality(Holders(ThePool', ip, now')) <= 1
            /\ \A hw \in Holders(ThePool', ip, now') :
                    getLeaseByIp(ThePool', ip).hwAddress = hw]_vars

\* hw 2 was given an ACK for the first address and is its only holder, while
\* hw 1 holds an unexpired lease on the last address
C31_AckedAfterExpiry ==
    /\ call = "request"
    /\ response # NoResponse
    /\ getMessageType(response[1].data) = DHCP_ACK
    /\ response[1].data.chaddr = 2
    /\ response[1].data.yiaddr = m_dhcpFirst
    /\ Holders(ThePool, m_dhcpFirst, now) = {2}
    /\ Holders(ThePool, m_dhcpLast, now) = {1}


\* C32: responses leave on the interface their request arrived on. Every
\* datagram of this specification is received by receiver 1, so every
\* response is to be sent through the socket of receiver 1, however the
\* receiver threads interleave.
C32_SentOnArrivalInterface ==
    \A i \in DOMAIN sent : sent[i].socket = 1


\* the leases of the hardware addresses other than hw are as they were, in
\* both indices
OtherLeasesKept(hw) ==
    \A other \in HwAddrs \ {hw} :
        /\ getLeaseByHw(ThePool', other) = getLeaseByHw(ThePool, other)
        /\ \A ip \in DOMAIN booked :
                getLeaseByIp(ThePool, ip).hwAddress = other
                => getLeaseByIp(ThePool', ip) = getLeaseByIp(ThePool, ip)

\* C33: release ownership. A RELEASE or DECLINE sent by one hardware address
\* neither removes nor alters a lease held by another hardware address: the
\* lease on frame.ciaddr goes only when it belongs to the sender's chaddr.
C33_ReleaseOwnership ==
    [][/\ call' = "release" =>
            \A bootp \in ReleaseFrames :
                ReleaseMsg(bootp) => OtherLeasesKept(bootp.chaddr)
       /\ call' = "decline" =>
            \A bootp \in DeclineFrames :
                DeclineMsg(bootp) => OtherLeasesKept(bootp.chaddr)]_vars


\* C34: pending offers are exclusive. While the offer table holds an offer
\* of an address for one hardware address, a DISCOVER from another hardware
\* address is not offered that address: no two entries of the offer table
\* carry the same yiaddr.
C34_OffersExclusive ==
    \A hw1, hw2 \in DOMAIN offers :
        (hw1 # hw2 /\ offers[hw1].yiaddr # 0) => offers[hw1].yiaddr # offers[hw2].yiaddr


\* ------------------------------------------- frames of several transactions
\* the transaction ids the clients use
TransactionIds == {4660, 4661}

\* frames of TransactionFrames(frames): those of `frames` under each id
TransactionFrames(frames) ==
    {[bootp EXCEPT !.transactionId = xid] : bootp \in frames, xid \in TransactionIds}

\* BootpHandler::handleRequest on DISCOVER and REQUEST frames whose xid varies
TransactionNext ==
    \/ \E bootp \in TransactionFrames(DiscoverFrames), kept \in SelfMoveOutcomes :
            Discover(bootp, kept)
    \/ \E bootp \in TransactionFrames(RequestFrames) : Request(bootp)

TransactionSpec == Init /\ [][TransactionNext]_vars

\* reply carries the xid, flags, giaddr and chaddr of bootp
Echoes(reply, bootp) ==
    /\ reply.transactionId = bootp.transactionId
    /\ reply.flags = bootp.flags
    /\ reply.giaddr = bootp.giaddr
    /\ reply.chaddr = bootp.chaddr

\* C35: transaction echo. Every reply (OFFER, ACK or NAK) carries the xid,
\* flags, giaddr and chaddr of the frame whose handling produced it; an ACK
\* or NAK built from an offer table entry carries the xid of the REQUEST
\* being answered, not that of the earlier DISCOVER.
C35_TransactionEcho ==
    [][/\ (call' = "discover" /\ response' # NoResponse) =>
            \A bootp \in TransactionFrames(DiscoverFrames), kept \in SelfMoveOutcomes :
                Discover(bootp, kept) => Echoes(response'[1].data, bootp)
       /\ (call' = "request" /\ response' # NoResponse) =>
            \A bootp \in TransactionFrames(RequestFrames) :
                Request(bootp) => Echoes(response'[1].data, bootp)]_vars


\* REQUEST frames that name no address: no option 50, or one without a value
BareRequestFrames ==
    {bootp \in RequestFrames :
        \/ Option_RequestedIp \notin DOMAIN bootp.options
        \/ bootp.options[Option_RequestedIp] = << >>}

\* hw holds a lease in pool p that has not run out at t
HoldsUnexpired(p, hw, t) ==
    /\ isLeaseEntryValid(getLeaseByHw(p, hw))
    /\ ~isLeaseExpired(getLeaseByHw(p, hw), t)

\* C36: a REQUEST without option 50, or with an empty one, is never answered
\* with an ACK: the requested address is 0, the answer is a NAK, also for a
\* client that holds an unexpired lease and renews by ciaddr alone, and that
\* client's lease is neither refreshed nor removed by the call (no lease is).
C36_BareRequestNaked ==
    [][call' = "request" =>
        \A bootp \in BareRequestFrames :
            Request(bootp) =>
                /\ getRequestedIpAddress(bootp) = 0
                /\ response' # NoResponse
                /\ getMessageType(response'[1].data) = DHCP_NAK
                /\ HoldsUnexpired(ThePool, bootp.chaddr, now) =>
                        /\ m_leasesByHw' = m_leasesByHw
                        /\ m_leasesByIp' = m_leasesByIp]_vars

\* a REQUEST of hw 1 was answered with a NAK while hw 1 holds the lease on
\* the first address it was given a tick earlier, and has no offer pending
C36_LeaseHolderNaked ==
    /\ call = "request"
    /\ response # NoResponse
    /\ getMessageType(response[1].data) = DHCP_NAK
    /\ response[1].data.chaddr = 1
    /\ HoldsUnexpired(ThePool, 1, now)
    /\ getLeaseByHw(ThePool, 1) = Lease(now - 1, 1, m_dhcpFirst)
    /\ 1 \notin DOMAIN offers


\* bootp is a REQUEST by which its sender renews: the sender holds an unexpired
\* lease on the address the frame names in option 50
Renews(bootp) ==
    /\ HoldsUnexpired(ThePool, bootp.chaddr, now)
    /\ getLeaseByHw(ThePool, bootp.chaddr).ipAddress = getRequestedIpAddress(bootp)

\* the step answered bootp with an ACK and left the sender's lease on the
\* requested address with start_time now in both indices, and the leases of
\* the others as they were
Refreshed(bootp) ==
    /\ response' # NoResponse
    /\ getMessageType(response'[1].data) = DHCP_ACK
    /\ getLeaseByHw(ThePool', bootp.chaddr) =
            Lease(now, bootp.chaddr, getRequestedIpAddress(bootp))
    /\ getLeaseByIp(ThePool', getRequestedIpAddress(bootp)) =
            Lease(now, bootp.chaddr, getRequestedIpAddress(bootp))
    /\ OtherLeasesKept(bootp.chaddr)

\* C37: renewal refreshes the lease. When a hardware address that holds an
\* unexpired lease on X sends a REQUEST with RequestedIp = X, the reply is an
\* ACK and the lease's start_time becomes the current time in both indices;
\* no other lease changes.
C37_RenewalRefreshes ==
    [][call' = "request" =>
        \A bootp \in RequestFrames :
            (Request(bootp) /\ Renews(bootp)) => Refreshed(bootp)]_vars


\* C38: snapshot consistency. In every reachable state the list getAllLeases
\* returns holds no two leases with the same IP address and no two with the
\* same hardware address, every lease in it has start_time > 0, it holds
\* exactly the leases lease_by_ip reports, and loading it back through
\* configure gives the same pool.
C38_SnapshotConsistent ==
    \A leases \in getAllLeases(ThePool) :
        /\ \A i, j \in DOMAIN leases :
                i # j => /\ leases[i].ipAddress # leases[j].ipAddress
                         /\ leases[i].hwAddress # leases[j].hwAddress
        /\ \A i \in DOMAIN leases : leases[i].startTime > 0
        /\ {leases[i] : i \in DOMAIN leases} = Leases(m_leasesByIp)
        /\ configure(leases) = ThePool


\* ------------------------------------------- the daemon while it is running
\* as Init; the state the handler thread last saw is the configured one
RunningInit ==
    \E leases \in InitialLeases :
        /\ m_leasesByHw = configure(leases).byHw
        /\ m_leasesByIp = configure(leases).byIp
        /\ now = 1
        /\ call = "configure"
        /\ ret = [pool |-> configure(leases), offers |-> EmptyMap]
        /\ booked = BookLeases([x \in TestIps \cup {OtherNetworkIp} |-> NoBooking], leases)
        /\ offers = EmptyMap
        /\ response = NoResponse
        /\ savedLeases = << >>
        /\ ThreadInit

\* handlerThread: a step of the loop body other than handleRequest's own
HandlerStep ==
    \/ HandlerTake
    \/ EmplaceBegin
    \/ EmplaceEnd

\* handleRequest(std::move(request)) returns, with or without a response
HandleReturns ==
    /\ pc.handler = "handle"
    /\ pc' \in {At("handler", "emplace"), At("handler", "loop")}

\* socketThreadFn of receiver r: one step of the loop body that needs no
\* datagram; select() returns after a second at the latest
ReceiverStep(r) ==
    \/ GetNextResponse(r)
    \/ SendResponse(r)
    \/ NothingRead(r)

\* no SIGTERM arrives: the handler thread and the receiver threads run on
RunningNext ==
    \/ HandlerStep
    \/ \E kept \in SelfMoveOutcomes : HandlerHandle(kept)
    \/ \E r \in Receivers : ReceiverStep(r)
    \/ \E bootp \in ThreadFrames : AddRequestData(1, bootp)

\* every thread that can take a step is scheduled again
RunningSpec ==
    /\ RunningInit
    /\ [][RunningNext]_vars
    /\ WF_vars(HandlerStep)
    /\ WF_pc(HandleReturns)
    /\ \A r \in Receivers : WF_vars(ReceiverStep(r))

\* request n is in the request queue or taken from it and not yet handled
Waiting(n) ==
    \/ \E i \in DOMAIN requests : requests[i].n = n
    \/ pc.handler = "handle" /\ held.handler[1].n = n

\* the handler thread is about to put the response to request n in the
\* outbound queue
Placing(n) == pc.handler = "emplace" /\ held.handler[1].n = n

\* the response to request n has been given to sendResponse
Sent(n) == \E i \in DOMAIN sent : sent[i].n = n

\* C39: progress while running. With no shutdown signalled and the handler
\* and receiver threads scheduled fairly, every request addRequestData queued
\* is eventually handled by the handler thread, and every response the
\* handler thread places in the outbound queue is eventually passed to
\* sendResponse by a receiver thread, whether or not further datagrams arrive.
C39_Progress ==
    \A n \in 1 .. MaxDatagrams :
        /\ Waiting(n) ~> (accepted >= n /\ ~Waiting(n))
        /\ Placing(n) ~> Sent(n)


\* C40: queue locking discipline. The request queue is touched only under
\* requestsMutex and the outbound queue only under responsesMutex, the
\* handler thread's pushes included, so that no receiver thread's
\* getNextResponse (empty-check and pop) runs while the handler thread is
\* inside outbound.emplace.
C40_PushExcludesPop ==
    [][call' = "getNextResponse" => pc.handler \notin {"emplacing", "raced"}]_vars

====
